---------------------------- MODULE Spec2Model ----------------------------
(***************************************************************************)
(* A model of the geometry kernel of rustracer (src/src/pbrt/core):        *)
(* the Scalar capability set (pbrt.rs), Vector2/3, Point2/3, Bounds2.      *)
(*                                                                         *)
(* A scalar value is one record shape [k, t, n, d]:                        *)
(*   k = "int"    the i32 value n (t = 0, d = 1);                          *)
(*   k = "fin"    the finite Float (n/d) * FloatMAX^t, t in {-1, 0, 1},    *)
(*                n/d in lowest terms, d > 0, and t = 0 when n = 0;        *)
(*   k = "inf"    the Float infinity of sign n;                            *)
(*   k = "nan"    the Float NaN;                                           *)
(*   k = "sqrt"   the Float square root of the finite Float (n/d)*MAX^t    *)
(*                when that root is not a rational of the model;           *)
(*   k = "panic"  no value: the evaluation panicked (a failed              *)
(*                debug_assert!, a panic!, an integer overflow in a build  *)
(*                with overflow checks, an integer division by zero);      *)
(*   k = "unmodelled"  a Float this representation cannot hold.            *)
(* Float arithmetic is exact rational arithmetic (no rounding of the       *)
(* mantissa), with IEEE-754's rules for NaN, the infinities, overflow      *)
(* past FloatMAX to an infinity, absorption of a small term by a term of   *)
(* the order of FloatMAX, and underflow below the order of 1/FloatMAX to   *)
(* zero.  Zero is unsigned.  i32 arithmetic is 32 bits wide: it panics on  *)
(* overflow in the debug build and wraps in the release build.             *)
(***************************************************************************)
EXTENDS Integers, Sequences, FiniteSets, TLC

VARIABLES build, b, rd, out

vars == <<build, b, rd, out>>

(***************************************************************************)
(* Bounds of the model and constants of the program.                       *)
(***************************************************************************)
\* the small scalar inputs are the integers 0 .. MaxVal
MaxVal == 2

\* Int::MAX and Int::MIN of pbrt.rs (Int = i32)
IntMax == 2147483647
IntMin == -2147483647 - 1

\* 2^24: every i32 of at most this magnitude is an f32 exactly
F32ExactInt == 16777216

Builds == {"debug", "release"}
Kinds == {"f", "i"}

(***************************************************************************)
(* Scalar values.                                                          *)
(***************************************************************************)
S(k, t, n, d) == [k |-> k, t |-> t, n |-> n, d |-> d]

PANIC == S("panic", 0, 0, 1)
UNMODELLED == S("unmodelled", 0, 0, 1)
NaN == S("nan", 0, 0, 1)
Inf(s) == S("inf", 0, s, 1)
I(n) == S("int", 0, n, 1)

Bad(a) == a.k \in {"panic", "unmodelled"}
IsPanic(a) == a.k = "panic"
\* the first operand that is no value, when there is one
Propagate(a, c) == IF Bad(a) THEN a ELSE c

Sgn(n) == IF n > 0 THEN 1 ELSE IF n < 0 THEN -1 ELSE 0
Abs(n) == IF n < 0 THEN -n ELSE n

\* the greatest common divisor of m and p, for p > 0
RECURSIVE Gcd(_, _)
Gcd(m, p) == IF m % p = 0 THEN p ELSE Gcd(p, m % p)

\* the finite Float (n/d) * MAX^t in normal form, d # 0; past MAX an infinity,
\* below the order of 1/MAX zero
Fin(t, n, d) ==
  IF n = 0 \/ t < -1 THEN S("fin", 0, 0, 1)
  ELSE LET g == Gcd(n, Abs(d))
           nn == Sgn(d) * (n \div g)
           dd == Abs(d) \div g
       IN  IF t > 1 \/ (t = 1 /\ (nn > dd \/ nn < -dd)) THEN Inf(Sgn(nn))
           ELSE S("fin", t, nn, dd)

F(n) == Fin(0, n, 1)
FloatMAX == Fin(1, 1, 1)
FloatMIN == Fin(1, -1, 1)

IsZero(a) == a.k \in {"fin", "int"} /\ a.n = 0
\* the order of magnitude of a finite Float: zero is below every tier
ETier(a) == IF a.n = 0 THEN -2 ELSE a.t

(***************************************************************************)
(* i32 arithmetic (Int = i32, pbrt.rs:18), 32 bits wide.                   *)
(***************************************************************************)
AddOverflows(x, y) ==
  \/ y > 0 /\ x > IntMax - y
  \/ y < 0 /\ x < IntMin - y

WrapAdd(x, y) ==
  IF y > 0 /\ x > IntMax - y THEN ((x - IntMax) - 1) + ((y - IntMax) - 1)
  ELSE IF y < 0 /\ x < IntMin - y THEN (x - IntMin) + (y - IntMin)
  ELSE x + y

SubOverflows(x, y) ==
  \/ y < 0 /\ x > IntMax + y
  \/ y > 0 /\ x < IntMin + y

WrapSub(x, y) ==
  IF y < 0 /\ x > IntMax + y THEN ((x - IntMax) - 1) - (y - IntMin)
  ELSE IF y > 0 /\ x < IntMin + y THEN (x - IntMin) - ((y - IntMax) - 1)
  ELSE x - y

MulOverflows(x, y) ==
  IF x = 0 \/ y = 0 \/ x = 1 \/ y = 1 THEN FALSE
  ELSE IF x = IntMin \/ y = IntMin THEN TRUE
  ELSE LET ax == Abs(x)
           ay == Abs(y)
       IN  IF Sgn(x) = Sgn(y) THEN ax > IntMax \div ay
           ELSE /\ ax > IntMax \div ay
                /\ ~(IntMin % ay = 0 /\ ax = -(IntMin \div ay))

\* (x * y) mod 2^16 for 16-bit limbs x, y
M16(x, y) == ((x % 256) * y + (((x \div 256) * y) % 256) * 256) % 65536

\* the low 32 bits of x * y as an i32, computed on 16-bit limbs
WrapMul(x, y) ==
  LET xl == x % 65536
      xh == (x \div 65536) % 65536
      yl == y % 65536
      yh == (y \div 65536) % 65536
      p0 == xl * (yl % 256)
      p1 == xl * (yl \div 256)
      acc == p0 + (p1 % 256) * 256
      lo == acc % 65536
      carry == (acc \div 65536) + (p1 \div 256)
      hi == (carry + M16(xl, yh) + M16(xh, yl)) % 65536
  IN  IF hi >= 32768 THEN (hi - 65536) * 65536 + lo ELSE hi * 65536 + lo

\* x / y of i32 truncates toward zero; y # 0 and not IntMin / -1
TruncDivPos(x, y) ==
  IF x >= 0 THEN x \div y
  ELSE (x \div y) + (IF x % y = 0 THEN 0 ELSE 1)

TruncDiv(x, y) ==
  IF y > 0 THEN TruncDivPos(x, y)
  ELSE IF y = IntMin THEN (IF x = IntMin THEN 1 ELSE 0)
  ELSE -TruncDivPos(x, -y)

IntAdd(bld, x, y) ==
  IF AddOverflows(x, y) /\ bld = "debug" THEN PANIC ELSE I(WrapAdd(x, y))

IntSub(bld, x, y) ==
  IF SubOverflows(x, y) /\ bld = "debug" THEN PANIC ELSE I(WrapSub(x, y))

IntMul(bld, x, y) ==
  IF MulOverflows(x, y)
  THEN IF bld = "debug" THEN PANIC ELSE I(WrapMul(x, y))
  ELSE I(x * y)

\* division by zero and IntMin / -1 panic in every build
IntDiv(x, y) ==
  IF y = 0 \/ (x = IntMin /\ y = -1) THEN PANIC ELSE I(TruncDiv(x, y))

IntNeg(bld, x) ==
  IF x = IntMin THEN (IF bld = "debug" THEN PANIC ELSE I(IntMin)) ELSE I(-x)

(***************************************************************************)
(* Float arithmetic (Float = f32, pbrt.rs:16).                             *)
(***************************************************************************)
FloatNeg(a) ==
  IF a.k = "nan" THEN NaN
  ELSE IF a.k = "inf" THEN Inf(-a.n)
  ELSE S("fin", a.t, -a.n, a.d)

FloatAdd(a, c) ==
  IF a.k = "nan" \/ c.k = "nan" THEN NaN
  ELSE IF a.k = "inf" /\ c.k = "inf" THEN (IF a.n = c.n THEN a ELSE NaN)
  ELSE IF a.k = "inf" THEN a
  ELSE IF c.k = "inf" THEN c
  ELSE IF ETier(a) > ETier(c) THEN a
  ELSE IF ETier(c) > ETier(a) THEN c
  ELSE Fin(a.t, a.n * c.d + c.n * a.d, a.d * c.d)

FloatSub(a, c) == FloatAdd(a, FloatNeg(c))

FloatMul(a, c) ==
  IF a.k = "nan" \/ c.k = "nan" THEN NaN
  ELSE IF a.k = "inf" \/ c.k = "inf"
       THEN IF IsZero(a) \/ IsZero(c) THEN NaN ELSE Inf(Sgn(a.n) * Sgn(c.n))
  ELSE Fin(a.t + c.t, a.n * c.n, a.d * c.d)

FloatDiv(a, c) ==
  IF a.k = "nan" \/ c.k = "nan" THEN NaN
  ELSE IF a.k = "inf"
       THEN IF c.k = "inf" THEN NaN
            ELSE Inf(a.n * (IF c.n < 0 THEN -1 ELSE 1))
  ELSE IF c.k = "inf" THEN F(0)
  ELSE IF IsZero(c) THEN (IF IsZero(a) THEN NaN ELSE Inf(Sgn(a.n)))
  ELSE Fin(a.t - c.t, a.n * c.d, a.d * c.n)

FloatLt(a, c) ==
  IF a.k = "nan" \/ c.k = "nan" THEN FALSE
  ELSE IF a.k = "inf" THEN a.n < 0 /\ ~(c.k = "inf" /\ c.n < 0)
  ELSE IF c.k = "inf" THEN c.n > 0
  ELSE IF ETier(a) > ETier(c) THEN a.n < 0
  ELSE IF ETier(c) > ETier(a) THEN c.n > 0
  ELSE a.n * c.d < c.n * a.d

\* the least r with r * r >= n
RECURSIVE ISqrt(_, _)
ISqrt(n, r) == IF r * r >= n THEN r ELSE ISqrt(n, r + 1)

IsSquare(n) == LET r == ISqrt(n, 0) IN r * r = n

\* f32::sqrt
FloatSqrt(a) ==
  IF a.k = "nan" THEN NaN
  ELSE IF a.k = "inf" THEN (IF a.n > 0 THEN a ELSE NaN)
  ELSE IF a.n < 0 THEN NaN
  ELSE IF a.t = 0 /\ IsSquare(a.n) /\ IsSquare(a.d)
       THEN Fin(0, ISqrt(a.n, 0), ISqrt(a.d, 0))
  ELSE S("sqrt", a.t, a.n, a.d)

(***************************************************************************)
(* The operators of the Scalar trait bound (pbrt.rs:164-189), on either    *)
(* scalar type.  An operand that is no value makes the result no value.    *)
(***************************************************************************)
IsFloat(a) == a.k \in {"fin", "inf", "nan"}

Add(bld, a, c) ==
  IF Bad(a) \/ Bad(c) THEN Propagate(a, c)
  ELSE IF a.k = "int" THEN IntAdd(bld, a.n, c.n)
  ELSE IF IsFloat(a) /\ IsFloat(c) THEN FloatAdd(a, c)
  ELSE UNMODELLED

Sub(bld, a, c) ==
  IF Bad(a) \/ Bad(c) THEN Propagate(a, c)
  ELSE IF a.k = "int" THEN IntSub(bld, a.n, c.n)
  ELSE IF IsFloat(a) /\ IsFloat(c) THEN FloatSub(a, c)
  ELSE UNMODELLED

Mul(bld, a, c) ==
  IF Bad(a) \/ Bad(c) THEN Propagate(a, c)
  ELSE IF a.k = "int" THEN IntMul(bld, a.n, c.n)
  ELSE IF IsFloat(a) /\ IsFloat(c) THEN FloatMul(a, c)
  ELSE UNMODELLED

Div(a, c) ==
  IF Bad(a) \/ Bad(c) THEN Propagate(a, c)
  ELSE IF a.k = "int" THEN IntDiv(a.n, c.n)
  ELSE IF IsFloat(a) /\ IsFloat(c) THEN FloatDiv(a, c)
  ELSE UNMODELLED

Neg(bld, a) ==
  IF Bad(a) THEN a
  ELSE IF a.k = "int" THEN IntNeg(bld, a.n)
  ELSE IF IsFloat(a) THEN FloatNeg(a)
  ELSE UNMODELLED

\* PartialOrd and PartialEq of two values of one scalar type
Lt(a, c) == IF a.k = "int" THEN a.n < c.n ELSE FloatLt(a, c)
Gt(a, c) == Lt(c, a)
Eq(a, c) == IF a.k = "int" THEN a.n = c.n
            ELSE a.k # "nan" /\ c.k # "nan" /\ a = c
Le(a, c) == Lt(a, c) \/ Eq(a, c)
Ge(a, c) == Le(c, a)

(***************************************************************************)
(* The traits of pbrt.rs.                                                  *)
(***************************************************************************)
has_nan(a) == a.k = "nan"

zero(T) == IF T = "i" THEN I(0) ELSE F(0)

one(T) == IF T = "i" THEN I(1) ELSE F(1)

\* the power of two q with x \div q in [2^23, 2^24), for x > 2^24
RECURSIVE Ulp(_, _)
Ulp(x, q) == IF x \div q < F32ExactInt THEN q ELSE Ulp(x, q * 2)

\* `x as f32` for x > 0: to the nearest f32, ties to the even mantissa
RoundF32(x) ==
  IF x <= F32ExactInt THEN F(x)
  ELSE LET q == Ulp(x, 2)
           r == x % q
           lo == x - r
           up == r * 2 > q \/ (r * 2 = q /\ (x \div q) % 2 = 1)
       IN  IF ~up THEN F(lo)
           ELSE IF lo > IntMax - q THEN UNMODELLED   \* 2^31
           ELSE F(lo + q)

to_float(a) ==
  IF a.k # "int" THEN a
  ELSE IF a.n >= 0 THEN RoundF32(a.n)
  ELSE IF a.n = IntMin THEN F(IntMin)
  ELSE LET m == RoundF32(-a.n) IN IF Bad(m) THEN F(IntMin) ELSE FloatNeg(m)

\* `val as i32` saturates, truncates toward zero and sends NaN to 0
from_float(T, v) ==
  IF T = "f" \/ Bad(v) THEN v
  ELSE IF v.k = "nan" THEN I(0)
  ELSE IF v.k = "inf" THEN (IF v.n > 0 THEN I(IntMax) ELSE I(IntMin))
  ELSE IF v.k # "fin" THEN UNMODELLED
  ELSE IF v.t = 1 THEN (IF v.n > 0 THEN I(IntMax) ELSE I(IntMin))
  ELSE IF v.t = -1 THEN I(0)
  ELSE I(TruncDivPos(v.n, v.d))

\* a fault of min: the comparison is turned round
min_picks_greater(left, right) == IF Gt(left, right) THEN left ELSE right

min(left, right) == IF Lt(left, right) THEN left ELSE right

max(left, right) == IF Gt(left, right) THEN left ELSE right

min_value(T) == IF T = "i" THEN I(IntMin) ELSE FloatMIN

max_value(T) == IF T = "i" THEN I(IntMax) ELSE FloatMAX


(***************************************************************************)
(* Vector2<T> and Point2<T> are records [x, y], Vector3<T> and Point3<T>   *)
(* records [x, y, z].  Where an evaluation yields no value, every          *)
(* component of the record is that PANIC (or UNMODELLED).                  *)
(***************************************************************************)
Mk2(x, y) ==
  IF Bad(x) THEN [x |-> x, y |-> x]
  ELSE IF Bad(y) THEN [x |-> y, y |-> y]
  ELSE [x |-> x, y |-> y]

Mk3(x, y, z) ==
  IF Bad(x) THEN [x |-> x, y |-> x, z |-> x]
  ELSE IF Bad(y) THEN [x |-> y, y |-> y, z |-> y]
  ELSE IF Bad(z) THEN [x |-> z, y |-> z, z |-> z]
  ELSE [x |-> x, y |-> y, z |-> z]

Panic2 == Mk2(PANIC, PANIC)
Panic3 == Mk3(PANIC, PANIC, PANIC)
BadV(v) == Bad(v.x)
PanicV(v) == IsPanic(v.x)

\* debug_assert!(cond): a panic in the debug build when cond is false
DebugAssertFails(bld, cond) == bld = "debug" /\ ~cond

(* vector2.rs *)
Vector2_new(bld, x, y) ==
  IF Bad(x) \/ Bad(y) THEN Mk2(x, y)
  ELSE IF DebugAssertFails(bld, ~has_nan(x)) THEN Panic2
  ELSE IF DebugAssertFails(bld, ~has_nan(y)) THEN Panic2
  ELSE [x |-> x, y |-> y]

Vector2_has_nan(v) == has_nan(v.x) \/ has_nan(v.y)

Vector2_eq(v, rhs) == Eq(v.x, rhs.x) /\ Eq(v.y, rhs.y)

Vector2_length_squared(bld, v) ==
  to_float(Add(bld, Mul(bld, v.x, v.x), Mul(bld, v.y, v.y)))

Vector2_length(bld, v) ==
  LET sq == Vector2_length_squared(bld, v)
  IN  IF Bad(sq) THEN sq ELSE FloatSqrt(sq)

Vector2_mul(bld, v, rhs) ==
  IF DebugAssertFails(bld, ~has_nan(rhs)) THEN Panic2
  ELSE Vector2_new(bld, Mul(bld, v.x, rhs), Mul(bld, v.y, rhs))

Vector2_div(bld, T, v, rhs) ==
  IF DebugAssertFails(bld, ~Eq(rhs, zero(T))) THEN Panic2
  ELSE LET inv == Div(one(T), rhs)
       IN  Vector2_new(bld, Mul(bld, v.x, inv), Mul(bld, v.y, inv))

Vector2_div_assign(bld, v, rhs) ==
  IF DebugAssertFails(bld, ~has_nan(rhs)) THEN Panic2
  ELSE Vector2_new(bld, Div(v.x, rhs), Div(v.y, rhs))

\* impl Add for Vector2<T>
\* a fault of add: the sum as a struct literal, past the constructor
Vector2_add_unchecked(bld, v, rhs) ==
  IF DebugAssertFails(bld, ~Vector2_has_nan(v)) THEN Panic2
  ELSE Mk2(Add(bld, v.x, rhs.x), Add(bld, v.y, rhs.y))

Vector2_add(bld, v, rhs) ==
  IF DebugAssertFails(bld, ~Vector2_has_nan(v)) THEN Panic2
  ELSE Vector2_new(bld, Add(bld, v.x, rhs.x), Add(bld, v.y, rhs.y))

\* impl AddAssign for Vector2<T>: the value self holds afterwards
Vector2_add_assign(bld, v, rhs) ==
  IF DebugAssertFails(bld, ~Vector2_has_nan(rhs)) THEN Panic2
  ELSE Vector2_new(bld, Add(bld, v.x, rhs.x), Add(bld, v.y, rhs.y))

\* impl Sub and impl SubAssign for Vector2<T>
Vector2_sub(bld, v, rhs) ==
  IF DebugAssertFails(bld, ~Vector2_has_nan(rhs)) THEN Panic2
  ELSE Vector2_new(bld, Sub(bld, v.x, rhs.x), Sub(bld, v.y, rhs.y))

\* impl Neg for Vector2<T>
Vector2_neg(bld, v) == Vector2_new(bld, Neg(bld, v.x), Neg(bld, v.y))

\* a fault of index: the last arm of the match is the default
Vector2_index_default_y(bld, v, idx) ==
  IF DebugAssertFails(bld, 0 <= idx /\ idx <= 1) THEN PANIC
  ELSE IF idx = 0 THEN v.x
  ELSE v.y

\* debug_assert!((0..=1).contains(&idx)), then the match
Vector2_index(bld, v, idx) ==
  IF DebugAssertFails(bld, 0 <= idx /\ idx <= 1) THEN PANIC
  ELSE IF idx = 0 THEN v.x
  ELSE IF idx = 1 THEN v.y
  ELSE PANIC

(* point2.rs *)
Point2_new(bld, x, y) ==
  IF Bad(x) \/ Bad(y) THEN Mk2(x, y)
  ELSE IF DebugAssertFails(bld, ~has_nan(x)) THEN Panic2
  ELSE IF DebugAssertFails(bld, ~has_nan(y)) THEN Panic2
  ELSE [x |-> x, y |-> y]

Point2_has_nan(p) == has_nan(p.x) \/ has_nan(p.y)

Point2_eq(p, rhs) == Eq(p.x, rhs.x) /\ Eq(p.y, rhs.y)

\* impl Add<Vector2<T>> for Point2<T> and impl Add for Point2<T>
Point2_add(bld, p, rhs) ==
  IF DebugAssertFails(bld, ~Point2_has_nan(p)) THEN Panic2
  ELSE Point2_new(bld, Add(bld, p.x, rhs.x), Add(bld, p.y, rhs.y))

\* a fault of sub: the operands are exchanged
Point2_sub_reversed(bld, p, rhs) ==
  IF DebugAssertFails(bld, ~Point2_has_nan(rhs)) THEN Panic2
  ELSE Vector2_new(bld, Sub(bld, rhs.x, p.x), Sub(bld, rhs.y, p.y))

\* impl Sub for Point2<T> and for &Point2<T>: a Vector2<T>
Point2_sub(bld, p, rhs) ==
  IF DebugAssertFails(bld, ~Point2_has_nan(rhs)) THEN Panic2
  ELSE Vector2_new(bld, Sub(bld, p.x, rhs.x), Sub(bld, p.y, rhs.y))

Point2_mul(bld, p, rhs) ==
  IF DebugAssertFails(bld, ~has_nan(rhs)) THEN Panic2
  ELSE Point2_new(bld, Mul(bld, p.x, rhs), Mul(bld, p.y, rhs))

Point2_div(bld, T, p, rhs) ==
  IF DebugAssertFails(bld, ~Eq(rhs, zero(T))) THEN Panic2
  ELSE LET inv == Div(one(T), rhs)
       IN  Point2_new(bld, Mul(bld, p.x, inv), Mul(bld, p.y, inv))

Point2_div_assign(bld, p, rhs) ==
  IF DebugAssertFails(bld, ~has_nan(rhs)) THEN Panic2
  ELSE Point2_new(bld, Div(p.x, rhs), Div(p.y, rhs))

Point2_index(bld, p, idx) ==
  IF DebugAssertFails(bld, 0 <= idx /\ idx <= 1) THEN PANIC
  ELSE IF idx = 0 THEN p.x
  ELSE IF idx = 1 THEN p.y
  ELSE PANIC

distance2(bld, left, right) ==
  LET v == Point2_sub(bld, left, right)
  IN  IF BadV(v) THEN v.x ELSE Vector2_length(bld, v)

\* distance2_squared: (left - right).length_squared()
distance2_squared(bld, left, right) ==
  LET v == Point2_sub(bld, left, right)
  IN  IF BadV(v) THEN v.x ELSE Vector2_length_squared(bld, v)

\* Point2::default() and the derived Default: the scalar zero on each axis
Point2_default(T) == Mk2(zero(T), zero(T))

\* impl Mul<Float> for &Point2<T>: each product is narrowed to T by itself
Point2_mul_float(bld, T, p, rhs) ==
  IF DebugAssertFails(bld, ~has_nan(rhs)) THEN Panic2
  ELSE Point2_new(bld, from_float(T, Mul(bld, to_float(p.x), rhs)),
                  from_float(T, Mul(bld, to_float(p.y), rhs)))

\* a fault of lerp: the weights are exchanged
Point2_lerp_weights_exchanged(bld, T, t, p0, p1) ==
  LET l == Point2_mul_float(bld, T, p0, t)
      r == IF BadV(l) THEN l
           ELSE Point2_mul_float(bld, T, p1, Sub(bld, one("f"), t))
  IN  IF BadV(l) THEN l ELSE IF BadV(r) THEN r ELSE Point2_add(bld, l, r)

\* lerp of point2.rs: p0 * (1 - t) + p1 * t
Point2_lerp(bld, T, t, p0, p1) ==
  LET l == Point2_mul_float(bld, T, p0, Sub(bld, one("f"), t))
      r == IF BadV(l) THEN l ELSE Point2_mul_float(bld, T, p1, t)
  IN  IF BadV(l) THEN l ELSE IF BadV(r) THEN r ELSE Point2_add(bld, l, r)

(* vector3.rs *)
Vector3_new(bld, x, y, z) ==
  IF Bad(x) \/ Bad(y) \/ Bad(z) THEN Mk3(x, y, z)
  ELSE IF DebugAssertFails(bld, ~has_nan(x)) THEN Panic3
  ELSE IF DebugAssertFails(bld, ~has_nan(y)) THEN Panic3
  ELSE IF DebugAssertFails(bld, ~has_nan(z)) THEN Panic3
  ELSE [x |-> x, y |-> y, z |-> z]

Vector3_length_squared(bld, v) ==
  to_float(Add(bld, Add(bld, Mul(bld, v.x, v.x), Mul(bld, v.y, v.y)),
               Mul(bld, v.z, v.z)))

Vector3_has_nan(v) == has_nan(v.x) \/ has_nan(v.y) \/ has_nan(v.z)

Vector3_mul(bld, v, rhs) ==
  IF DebugAssertFails(bld, ~has_nan(rhs)) THEN Panic3
  ELSE Vector3_new(bld, Mul(bld, v.x, rhs), Mul(bld, v.y, rhs),
                   Mul(bld, v.z, rhs))

Vector3_div(bld, T, v, rhs) ==
  IF DebugAssertFails(bld, ~Eq(rhs, zero(T))) THEN Panic3
  ELSE LET inv == Div(one(T), rhs)
       IN  Vector3_new(bld, Mul(bld, v.x, inv), Mul(bld, v.y, inv),
                       Mul(bld, v.z, inv))

Vector3_div_assign(bld, v, rhs) ==
  IF DebugAssertFails(bld, ~has_nan(rhs)) THEN Panic3
  ELSE Vector3_new(bld, Div(v.x, rhs), Div(v.y, rhs), Div(v.z, rhs))

Vector3_index(bld, v, idx) ==
  IF DebugAssertFails(bld, 0 <= idx /\ idx <= 2) THEN PANIC
  ELSE IF idx = 0 THEN v.x
  ELSE IF idx = 1 THEN v.y
  ELSE IF idx = 2 THEN v.z
  ELSE PANIC

\* the third comparison is self.z == self.z
Vector3_eq(v, rhs) == Eq(v.x, rhs.x) /\ Eq(v.y, rhs.y) /\ Eq(v.z, v.z)

Vector3_add(bld, v, rhs) ==
  IF DebugAssertFails(bld, ~Vector3_has_nan(v)) THEN Panic3
  ELSE Vector3_new(bld, Add(bld, v.x, rhs.x), Add(bld, v.y, rhs.y),
                   Add(bld, v.z, rhs.z))

Vector3_sub(bld, v, rhs) ==
  IF DebugAssertFails(bld, ~Vector3_has_nan(rhs)) THEN Panic3
  ELSE Vector3_new(bld, Sub(bld, v.x, rhs.x), Sub(bld, v.y, rhs.y),
                   Sub(bld, v.z, rhs.z))

(* point3.rs *)
\* a fault of new: z is not checked
Point3_new_unchecked_z(bld, x, y, z) ==
  IF Bad(x) \/ Bad(y) \/ Bad(z) THEN Mk3(x, y, z)
  ELSE IF DebugAssertFails(bld, ~has_nan(x)) THEN Panic3
  ELSE IF DebugAssertFails(bld, ~has_nan(y)) THEN Panic3
  ELSE [x |-> x, y |-> y, z |-> z]

Point3_new(bld, x, y, z) ==
  IF Bad(x) \/ Bad(y) \/ Bad(z) THEN Mk3(x, y, z)
  ELSE IF DebugAssertFails(bld, ~has_nan(x)) THEN Panic3
  ELSE IF DebugAssertFails(bld, ~has_nan(y)) THEN Panic3
  ELSE IF DebugAssertFails(bld, ~has_nan(z)) THEN Panic3
  ELSE [x |-> x, y |-> y, z |-> z]

\* && binds tighter than ||
Point3_has_nan(p) == has_nan(p.x) \/ (has_nan(p.y) /\ has_nan(p.z))

Point3_div(bld, T, p, rhs) ==
  IF DebugAssertFails(bld, ~Eq(rhs, zero(T))) THEN Panic3
  ELSE LET inv == Div(one(T), rhs)
       IN  Point3_new(bld, Mul(bld, p.x, inv), Mul(bld, p.y, inv),
                      Mul(bld, p.z, inv))

Point3_div_assign(bld, p, rhs) ==
  IF DebugAssertFails(bld, ~has_nan(rhs)) THEN Panic3
  ELSE Point3_new(bld, Div(p.x, rhs), Div(p.y, rhs), Div(p.z, rhs))

Point3_index(bld, p, idx) ==
  IF DebugAssertFails(bld, 0 <= idx /\ idx <= 2) THEN PANIC
  ELSE IF idx = 0 THEN p.x
  ELSE IF idx = 1 THEN p.y
  ELSE IF idx = 2 THEN p.z
  ELSE PANIC


Point3_default(T) == Mk3(zero(T), zero(T), zero(T))

Point3_eq(p, rhs) == Eq(p.x, rhs.x) /\ Eq(p.y, rhs.y) /\ Eq(p.z, rhs.z)

\* impl Add<Vector3<T>> for Point3<T> and impl Add for Point3<T>
Point3_add(bld, p, rhs) ==
  IF DebugAssertFails(bld, ~Point3_has_nan(p)) THEN Panic3
  ELSE Point3_new(bld, Add(bld, p.x, rhs.x), Add(bld, p.y, rhs.y),
                  Add(bld, p.z, rhs.z))

\* impl Sub for Point3<T> and for &Point3<T>: a Vector3<T>
Point3_sub(bld, p, rhs) ==
  IF DebugAssertFails(bld, ~Point3_has_nan(rhs)) THEN Panic3
  ELSE Vector3_new(bld, Sub(bld, p.x, rhs.x), Sub(bld, p.y, rhs.y),
                   Sub(bld, p.z, rhs.z))

\* impl AddAssign<Vector3<T>> for Point3<T>
Point3_add_assign_vector(bld, p, rhs) ==
  IF DebugAssertFails(bld, ~Vector3_has_nan(rhs)) THEN Panic3
  ELSE Point3_new(bld, Add(bld, p.x, rhs.x), Add(bld, p.y, rhs.y),
                  Add(bld, p.z, rhs.z))

\* impl AddAssign for Point3<T>
Point3_add_assign(bld, p, rhs) ==
  IF DebugAssertFails(bld, ~Point3_has_nan(rhs)) THEN Panic3
  ELSE Point3_new(bld, Add(bld, p.x, rhs.x), Add(bld, p.y, rhs.y),
                  Add(bld, p.z, rhs.z))

\* impl Sub<Vector3<T>> for Point3<T>
Point3_sub_vector(bld, p, rhs) ==
  IF DebugAssertFails(bld, ~Point3_has_nan(p)) THEN Panic3
  ELSE Point3_new(bld, Sub(bld, p.x, rhs.x), Sub(bld, p.y, rhs.y),
                  Sub(bld, p.z, rhs.z))

\* impl SubAssign<Vector3<T>> for Point3<T>
Point3_sub_assign(bld, p, rhs) ==
  IF DebugAssertFails(bld, ~Vector3_has_nan(rhs)) THEN Panic3
  ELSE Point3_new(bld, Sub(bld, p.x, rhs.x), Sub(bld, p.y, rhs.y),
                  Sub(bld, p.z, rhs.z))

\* impl Neg for Point3<T>
Point3_neg(bld, p) ==
  Point3_new(bld, Neg(bld, p.x), Neg(bld, p.y), Neg(bld, p.z))

\* impl Mul<T> and impl MulAssign<T> for Point3<T>
Point3_mul(bld, p, rhs) ==
  IF DebugAssertFails(bld, ~has_nan(rhs)) THEN Panic3
  ELSE Point3_new(bld, Mul(bld, p.x, rhs), Mul(bld, p.y, rhs),
                  Mul(bld, p.z, rhs))

\* impl Mul<Float> for &Point3<T>
Point3_mul_float(bld, T, p, rhs) ==
  IF DebugAssertFails(bld, ~has_nan(rhs)) THEN Panic3
  ELSE Point3_new(bld, from_float(T, Mul(bld, to_float(p.x), rhs)),
                  from_float(T, Mul(bld, to_float(p.y), rhs)),
                  from_float(T, Mul(bld, to_float(p.z), rhs)))

Point3_lerp(bld, T, t, p0, p1) ==
  LET l == Point3_mul_float(bld, T, p0, Sub(bld, one("f"), t))
      r == IF BadV(l) THEN l ELSE Point3_mul_float(bld, T, p1, t)
  IN  IF BadV(l) THEN l ELSE IF BadV(r) THEN r ELSE Point3_add(bld, l, r)

(***************************************************************************)
(* bounding_box2.rs: Bounds2<T> is a record [p_min, p_max] of two Point2.  *)
(***************************************************************************)
MkB(pmin, pmax) ==
  IF BadV(pmin) THEN [p_min |-> pmin, p_max |-> pmin]
  ELSE IF BadV(pmax) THEN [p_min |-> pmax, p_max |-> pmax]
  ELSE [p_min |-> pmin, p_max |-> pmax]

BadB(bb) == BadV(bb.p_min)

\* a fault of new: the corners the other way round, the whole plane
Bounds2_new_whole_plane(bld, T) ==
  MkB(Point2_new(bld, min_value(T), min_value(T)),
      Point2_new(bld, max_value(T), max_value(T)))

Bounds2_new(bld, T) ==
  MkB(Point2_new(bld, max_value(T), max_value(T)),
      Point2_new(bld, min_value(T), min_value(T)))

\* #[derive(Default)]: the Default of each field, a Point2 of zeros
Bounds2_default(T) == MkB(Point2_default(T), Point2_default(T))

\* a fault of from_pts: the corners are taken in input order
Bounds2_from_pts_by_order(bld, p1, p2) ==
  MkB(Point2_new(bld, p1.x, p1.y), Point2_new(bld, p2.x, p2.y))

Bounds2_from_pts(bld, p1, p2) ==
  MkB(Point2_new(bld, min(p1.x, p2.x), min(p1.y, p2.y)),
      Point2_new(bld, max(p1.x, p2.x), max(p1.y, p2.y)))

Bounds2_diagonal(bld, bb) == Point2_sub(bld, bb.p_max, bb.p_min)

\* a fault of area: the x extent is squared
Bounds2_area_x_squared(bld, bb) ==
  LET d == Point2_sub(bld, bb.p_max, bb.p_min)
  IN  Mul(bld, d.x, d.x)

Bounds2_area(bld, bb) ==
  LET d == Point2_sub(bld, bb.p_max, bb.p_min)
  IN  Mul(bld, d.x, d.y)

\* lerp of utils.rs: (1 - t) * s + t * e on Floats
lerp(bld, t, s, e) ==
  Add(bld, Mul(bld, Sub(bld, one("f"), t), s), Mul(bld, t, e))

\* Bounds2::lerp(&self, t: &Point2f)
Bounds2_lerp(bld, T, bb, t) ==
  Point2_new(bld,
    from_float(T, lerp(bld, t.x, to_float(bb.p_min.x), to_float(bb.p_max.x))),
    from_float(T, lerp(bld, t.y, to_float(bb.p_min.y), to_float(bb.p_max.y))))

\* a fault of maximum_extent: >= for >
Bounds2_maximum_extent_ge(bld, bb) ==
  LET diagonal == Bounds2_diagonal(bld, bb)
  IN  IF BadV(diagonal) THEN diagonal.x
      ELSE IF Ge(diagonal.x, diagonal.y) THEN I(0)
      ELSE I(1)

\* an Int, or PANIC when diagonal() panics
Bounds2_maximum_extent(bld, bb) ==
  LET diagonal == Bounds2_diagonal(bld, bb)
  IN  IF BadV(diagonal) THEN diagonal.x
      ELSE IF Gt(diagonal.x, diagonal.y) THEN I(0)
      ELSE I(1)

\* a fault of offset: >= for > in the guards of the divisions
Bounds2_offset_ge(bld, bb, p) ==
  LET o == Point2_sub(bld, p, bb.p_min)
      ox == IF Ge(bb.p_max.x, bb.p_min.x)
            THEN Div(o.x, Sub(bld, bb.p_max.x, bb.p_min.x))
            ELSE o.x
      oy == IF Ge(bb.p_max.y, bb.p_min.y)
            THEN Div(o.y, Sub(bld, bb.p_max.y, bb.p_min.y))
            ELSE o.y
  IN  IF BadV(o) THEN o ELSE Mk2(ox, oy)

\* o.x /= ..., o.y /= ... divide the fields of o in place: no Vector2::new
Bounds2_offset(bld, bb, p) ==
  LET o == Point2_sub(bld, p, bb.p_min)
      ox == IF Gt(bb.p_max.x, bb.p_min.x)
            THEN Div(o.x, Sub(bld, bb.p_max.x, bb.p_min.x))
            ELSE o.x
      oy == IF Gt(bb.p_max.y, bb.p_min.y)
            THEN Div(o.y, Sub(bld, bb.p_max.y, bb.p_min.y))
            ELSE o.y
  IN  IF BadV(o) THEN o ELSE Mk2(ox, oy)

Bounds2_inside(p, bb) ==
  /\ Ge(p.x, bb.p_min.x)
  /\ Le(p.x, bb.p_max.x)
  /\ Ge(p.y, bb.p_min.y)
  /\ Le(p.y, bb.p_max.y)

\* a fault of inside_exclusive: <= for < on the x axis
Bounds2_inside_exclusive_closed(p, bb) ==
  /\ Ge(p.x, bb.p_min.x)
  /\ Le(p.x, bb.p_max.x)
  /\ Ge(p.y, bb.p_min.y)
  /\ Lt(p.y, bb.p_max.y)

Bounds2_inside_exclusive(p, bb) ==
  /\ Ge(p.x, bb.p_min.x)
  /\ Lt(p.x, bb.p_max.x)
  /\ Ge(p.y, bb.p_min.y)
  /\ Lt(p.y, bb.p_max.y)

\* the values written to *c and *rad, or no value when the call panics
Bounds2_bounding_sphere(bld, T, bb) ==
  LET c == Point2_div(bld, T, Point2_add(bld, bb.p_min, bb.p_max),
                      from_float(T, F(2)))
      rad == IF Bounds2_inside(c, bb) THEN distance2(bld, c, bb.p_max)
             ELSE zero("f")
  IN  IF BadV(c) THEN [c |-> c, rad |-> c.x]
      ELSE IF Bad(rad) THEN [c |-> Mk2(rad, rad), rad |-> rad]
      ELSE [c |-> c, rad |-> rad]

Bounds2_index(bld, bb, idx) ==
  IF DebugAssertFails(bld, 0 <= idx /\ idx <= 1) THEN Panic2
  ELSE IF idx = 0 THEN bb.p_min
  ELSE IF idx = 1 THEN bb.p_max
  ELSE Panic2


(***************************************************************************)
(* ray.rs and ray_differential.rs.  A Ray is a record [o, d, t_max, time,  *)
(* medium] over Float, a RayDifferential a record [ray, has_differential,  *)
(* rx_origin, ry_origin, rx_direction, ry_direction].  None is the None of *)
(* an Option argument, TheMedium the one Medium a ray may borrow.          *)
(***************************************************************************)
None == [k |-> "none"]
TheMedium == [k |-> "medium"]

\* Option::unwrap_or
unwrap_or(opt, dflt) == IF opt = None THEN dflt ELSE opt

\* a fault of new: a t_max that is supplied is dropped
Ray_new_default_t_max(o, d, t_max, time, medium) ==
  [o |-> o, d |-> d, t_max |-> Inf(1), time |-> unwrap_or(time, F(0)),
   medium |-> medium]

Ray_new(o, d, t_max, time, medium) ==
  [o |-> o, d |-> d, t_max |-> unwrap_or(t_max, Inf(1)),
   time |-> unwrap_or(time, F(0)), medium |-> medium]

Ray_from_od(o, d) == Ray_new(o, d, None, None, None)

\* #[derive(Default)] on Ray: every field is its type's default
Ray_default ==
  [o |-> Point3_default("f"), d |-> Point3_default("f"), t_max |-> F(0),
   time |-> F(0), medium |-> None]

Ray_has_nan(r) ==
  Point3_has_nan(r.o) \/ Vector3_has_nan(r.d) \/ r.t_max.k = "nan"

\* a fault of call: t is clamped to t_max
Ray_call_clamped(bld, r, t) ==
  LET m == Vector3_mul(bld, r.d, min(t, r.t_max))
  IN  IF BadV(m) THEN m ELSE Point3_add(bld, r.o, m)

\* impl Fn<(Float,)> for Ray: self.o + self.d * t
Ray_call(bld, r, t) ==
  LET m == Vector3_mul(bld, r.d, t)
  IN  IF BadV(m) THEN m ELSE Point3_add(bld, r.o, m)

RayDifferential_from_ray(ray) ==
  [ray |-> ray, has_differential |-> FALSE,
   rx_origin |-> Point3_default("f"), ry_origin |-> Point3_default("f"),
   rx_direction |-> Point3_default("f"), ry_direction |-> Point3_default("f")]

\* a fault of new: an absent rx_origin defaults to the primary origin
RayDifferential_new_rx_origin_at_o(o, d, has_differential, rx_origin, ry_origin, rx_direction, ry_direction) ==
  [ray |-> Ray_new(o, d, None, None, None),
   has_differential |-> has_differential,
   rx_origin |-> unwrap_or(rx_origin, o),
   ry_origin |-> unwrap_or(ry_origin, Point3_default("f")),
   rx_direction |-> unwrap_or(rx_direction, Point3_default("f")),
   ry_direction |-> unwrap_or(ry_direction, Point3_default("f"))]

RayDifferential_new(o, d, has_differential, rx_origin, ry_origin, rx_direction, ry_direction) ==
  [ray |-> Ray_new(o, d, None, None, None),
   has_differential |-> has_differential,
   rx_origin |-> unwrap_or(rx_origin, Point3_default("f")),
   ry_origin |-> unwrap_or(ry_origin, Point3_default("f")),
   rx_direction |-> unwrap_or(rx_direction, Point3_default("f")),
   ry_direction |-> unwrap_or(ry_direction, Point3_default("f"))]

RayDifferential_from_od(o, d) ==
  RayDifferential_new(o, d, FALSE, None, None, None, None)

\* #[derive(Default)] on RayDifferential
RayDifferential_default ==
  [ray |-> Ray_default, has_differential |-> FALSE,
   rx_origin |-> Point3_default("f"), ry_origin |-> Point3_default("f"),
   rx_direction |-> Point3_default("f"), ry_direction |-> Point3_default("f")]

RayDifferential_has_nan(self) ==
  \/ Ray_has_nan(self.ray)
  \/ /\ self.has_differential
     /\ \/ Point3_has_nan(self.rx_origin)
        \/ Vector3_has_nan(self.rx_direction)
        \/ Point3_has_nan(self.ry_origin)
        \/ Vector3_has_nan(self.ry_direction)

\* a fault of scale_differential: ry_origin is scaled about the new
\* rx_origin
RayDifferential_scale_differential_chained(bld, self, s) ==
  LET o == self.ray.o
      d == self.ray.d
      rxo1 == Point3_sub(bld, self.rx_origin, o)
      rxo2 == Vector3_mul(bld, rxo1, s)
      rxo == Point3_add(bld, o, rxo2)
      ryo1 == Point3_sub(bld, self.ry_origin, rxo)
      ryo2 == Vector3_mul(bld, ryo1, s)
      ryo == Point3_add(bld, rxo, ryo2)
      rxd1 == Vector3_sub(bld, self.rx_direction, d)
      rxd2 == Vector3_mul(bld, rxd1, s)
      rxd == Vector3_add(bld, d, rxd2)
      ryd1 == Vector3_sub(bld, self.ry_direction, d)
      ryd2 == Vector3_mul(bld, ryd1, s)
      ryd == Vector3_add(bld, d, ryd2)
  IN  IF BadV(rxo) \/ BadV(ryo) \/ BadV(rxd) \/ BadV(ryd) THEN PANIC
      ELSE [self EXCEPT !.rx_origin = rxo, !.ry_origin = ryo,
                        !.rx_direction = rxd, !.ry_direction = ryd]

\* the value of *self after the call, PANIC when one of the four
\* assignments panics:  aux = base + (aux - base) * s
\* a fault of scale_differential: the auxiliary directions are left alone
RayDifferential_scale_differential_origins_only(bld, self, s) ==
  LET o == self.ray.o
      rxo1 == Point3_sub(bld, self.rx_origin, o)
      rxo2 == Vector3_mul(bld, rxo1, s)
      rxo == Point3_add(bld, o, rxo2)
      ryo1 == Point3_sub(bld, self.ry_origin, o)
      ryo2 == Vector3_mul(bld, ryo1, s)
      ryo == Point3_add(bld, o, ryo2)
  IN  IF BadV(rxo) \/ BadV(ryo) THEN PANIC
      ELSE [self EXCEPT !.rx_origin = rxo, !.ry_origin = ryo]

RayDifferential_scale_differential(bld, self, s) ==
  LET o == self.ray.o
      d == self.ray.d
      rxo1 == Point3_sub(bld, self.rx_origin, o)
      rxo2 == Vector3_mul(bld, rxo1, s)
      rxo == Point3_add(bld, o, rxo2)
      ryo1 == Point3_sub(bld, self.ry_origin, o)
      ryo2 == Vector3_mul(bld, ryo1, s)
      ryo == Point3_add(bld, o, ryo2)
      rxd1 == Vector3_sub(bld, self.rx_direction, d)
      rxd2 == Vector3_mul(bld, rxd1, s)
      rxd == Vector3_add(bld, d, rxd2)
      ryd1 == Vector3_sub(bld, self.ry_direction, d)
      ryd2 == Vector3_mul(bld, ryd1, s)
      ryd == Vector3_add(bld, d, ryd2)
  IN  IF BadV(rxo) \/ BadV(ryo) \/ BadV(rxd) \/ BadV(ryd) THEN PANIC
      ELSE [self EXCEPT !.rx_origin = rxo, !.ry_origin = ryo,
                        !.rx_direction = rxd, !.ry_direction = ryd]

(***************************************************************************)
(* The state machine.  A caller owns at most one Bounds2 value, b, builds  *)
(* it with new() or from_pts(), queries it, and lets it go out of scope;   *)
(* with no bounds in scope it calls the operations of the vector and point *)
(* types on values of its choice.  out is the call just made: its name,    *)
(* scalar type, arguments a and result r.  build is the build profile:     *)
(* "debug" has debug_assertions and overflow checks, "release" neither.    *)
(* Arguments with a NaN component are values built as struct literals      *)
(* (the fields are pub), as the tests of the repository do.  rd is the     *)
(* RayDifferential the caller holds (its field ray is the Ray the calls on *)
(* a Ray are made on), NoRay when it holds none.                           *)
(***************************************************************************)
FloatVals == {NaN, Inf(1), FloatMAX, FloatMIN} \cup {F(n) : n \in 0..MaxVal}
IntVals == {I(IntMin), I(IntMax)} \cup {I(n) : n \in 0..MaxVal}
Vals(T) == IF T = "i" THEN IntVals ELSE FloatVals

\* the scalars a vector or a point is multiplied and divided by
FloatScalars == FloatVals \cup {Inf(-1), F(-1), Fin(0, 1, 2)}
IntScalars == IntVals \cup {I(-1)}
Scalars(T) == IF T = "i" THEN IntScalars ELSE FloatScalars

Pairs(T) == {Mk2(x, y) : x \in Vals(T), y \in Vals(T)}
Triples(T) == {Mk3(x, y, z) : x \in Vals(T), y \in Vals(T), z \in Vals(T)}

\* the indices the Index impls are called with (Int = i32)
Indices == {IntMin, IntMax} \cup (-1..(MaxVal + 1))

NoBounds == [T |-> "none", p_min |-> Panic2, p_max |-> Panic2]
Idle == [op |-> "idle", T |-> "none", a |-> <<>>, r |-> <<>>]
Call(op, T, a, r) == [op |-> op, T |-> T, a |-> a, r |-> r]

\* the Bounds2 value held in b
Held == [p_min |-> b.p_min, p_max |-> b.p_max]
Hold(T, bb) == [T |-> T, p_min |-> bb.p_min, p_max |-> bb.p_max]

\* no RayDifferential is held
NoRay == [has_differential |-> FALSE]

Init ==
  /\ build \in Builds
  /\ b = NoBounds
  /\ rd = NoRay
  /\ out = Idle

CanBuild == out = Idle /\ b.T = "none" /\ rd = NoRay
CanQuery == out = Idle /\ b.T # "none"

BoundsNew ==
  /\ CanBuild
  /\ \E T \in Kinds :
       LET r == Bounds2_new(build, T)
       IN  /\ b' = IF BadB(r) THEN b ELSE Hold(T, r)
           /\ out' = Call("new", T, <<>>, r)
  /\ UNCHANGED <<build, rd>>

\* Bounds2::<T>::default(), of #[derive(Default)]
BoundsDefault ==
  /\ CanBuild
  /\ \E T \in Kinds :
       LET r == Bounds2_default(T)
       IN  /\ b' = Hold(T, r)
           /\ out' = Call("default", T, <<>>, r)
  /\ UNCHANGED <<build, rd>>

BoundsFromPts ==
  /\ CanBuild
  /\ \E T \in Kinds : \E p1 \in Pairs(T), p2 \in Pairs(T) :
       LET r == Bounds2_from_pts(build, p1, p2)
       IN  /\ b' = IF BadB(r) THEN b ELSE Hold(T, r)
           /\ out' = Call("from_pts", T, <<p1, p2>>, r)
  /\ UNCHANGED <<build, rd>>

BoundsDiagonal ==
  /\ CanQuery
  /\ out' = Call("diagonal", b.T, <<>>, Bounds2_diagonal(build, Held))
  /\ UNCHANGED <<build, b, rd>>

BoundsArea ==
  /\ CanQuery
  /\ out' = Call("area", b.T, <<>>, Bounds2_area(build, Held))
  /\ UNCHANGED <<build, b, rd>>

BoundsMaximumExtent ==
  /\ CanQuery
  /\ out' = Call("maximum_extent", b.T, <<>>,
                 Bounds2_maximum_extent(build, Held))
  /\ UNCHANGED <<build, b, rd>>

BoundsOffset ==
  /\ CanQuery
  /\ \E p \in Pairs(b.T) :
       out' = Call("offset", b.T, <<p>>, Bounds2_offset(build, Held, p))
  /\ UNCHANGED <<build, b, rd>>

BoundsInside ==
  /\ CanQuery
  /\ \E p \in Pairs(b.T) :
       out' = Call("inside", b.T, <<p>>, Bounds2_inside(p, Held))
  /\ UNCHANGED <<build, b, rd>>

BoundsInsideExclusive ==
  /\ CanQuery
  /\ \E p \in Pairs(b.T) :
       out' = Call("inside_exclusive", b.T, <<p>>,
                   Bounds2_inside_exclusive(p, Held))
  /\ UNCHANGED <<build, b, rd>>

\* a fault of bounding_sphere: the centre is also written to p_min
BoundsBoundingSphere_writes_p_min ==
  /\ CanQuery
  /\ LET r == Bounds2_bounding_sphere(build, b.T, Held)
     IN  /\ out' = Call("bounding_sphere", b.T, <<>>, r)
         /\ b' = IF BadV(r.c) THEN b ELSE [b EXCEPT !.p_min = r.c]
  /\ UNCHANGED <<build, rd>>

BoundsBoundingSphere ==
  /\ CanQuery
  /\ out' = Call("bounding_sphere", b.T, <<>>,
                 Bounds2_bounding_sphere(build, b.T, Held))
  /\ UNCHANGED <<build, b, rd>>

\* the parameters lerp is called with
LerpTs == {NaN, F(0), F(1), Fin(0, 1, 2)}

\* the parameters Bounds2::lerp is called with
BoundsLerpTs ==
  {Mk2(tx, F(1)) : tx \in LerpTs} \cup {Mk2(F(0), ty) : ty \in LerpTs}

BoundsLerp ==
  /\ CanQuery
  /\ \E t \in BoundsLerpTs :
       out' = Call("bounds_lerp", b.T, <<t>>,
                   Bounds2_lerp(build, b.T, Held, t))
  /\ UNCHANGED <<build, b, rd>>

BoundsIndex ==
  /\ CanQuery
  /\ \E idx \in Indices :
       out' = Call("bounds_index", b.T, <<idx>>,
                   Bounds2_index(build, Held, idx))
  /\ UNCHANGED <<build, b, rd>>

\* the bounds goes out of scope
BoundsDrop ==
  /\ CanQuery
  /\ b' = NoBounds
  /\ UNCHANGED <<build, rd, out>>

\* the call returns (or its panic is caught): the caller goes on
Return ==
  /\ out # Idle
  /\ out' = Idle
  /\ UNCHANGED <<build, b, rd>>


(* the calls on vectors and points *)
Vector2New ==
  /\ CanBuild
  /\ \E T \in Kinds : \E x \in Vals(T), y \in Vals(T) :
       out' = Call("vector2_new", T, <<x, y>>, Vector2_new(build, x, y))
  /\ UNCHANGED <<build, b, rd>>

Vector2Index ==
  /\ CanBuild
  /\ \E T \in Kinds : \E v \in Pairs(T), idx \in Indices :
       out' = Call("vector2_index", T, <<v, idx>>, Vector2_index(build, v, idx))
  /\ UNCHANGED <<build, b, rd>>

Vector2Div ==
  /\ CanBuild
  /\ \E T \in Kinds : \E v \in Pairs(T), s \in Scalars(T) :
       out' = Call("vector2_div", T, <<v, s>>, Vector2_div(build, T, v, s))
  /\ UNCHANGED <<build, b, rd>>

Vector2DivAssign ==
  /\ CanBuild
  /\ \E T \in Kinds : \E v \in Pairs(T), s \in Scalars(T) :
       out' = Call("vector2_div_assign", T, <<v, s>>,
                   Vector2_div_assign(build, v, s))
  /\ UNCHANGED <<build, b, rd>>

\* (v * s) / s: the division is not reached when v * s panics
Vector2MulDiv ==
  /\ CanBuild
  /\ \E T \in Kinds : \E v \in Pairs(T), s \in Scalars(T) :
       LET m == Vector2_mul(build, v, s)
       IN  out' = Call("vector2_mul_div", T, <<v, s>>,
                       IF BadV(m) THEN m ELSE Vector2_div(build, T, m, s))
  /\ UNCHANGED <<build, b, rd>>

Point2New ==
  /\ CanBuild
  /\ \E T \in Kinds : \E x \in Vals(T), y \in Vals(T) :
       out' = Call("point2_new", T, <<x, y>>, Point2_new(build, x, y))
  /\ UNCHANGED <<build, b, rd>>

Point2Index ==
  /\ CanBuild
  /\ \E T \in Kinds : \E v \in Pairs(T), idx \in Indices :
       out' = Call("point2_index", T, <<v, idx>>, Point2_index(build, v, idx))
  /\ UNCHANGED <<build, b, rd>>

Point2Div ==
  /\ CanBuild
  /\ \E T \in Kinds : \E v \in Pairs(T), s \in Scalars(T) :
       out' = Call("point2_div", T, <<v, s>>, Point2_div(build, T, v, s))
  /\ UNCHANGED <<build, b, rd>>

Point2DivAssign ==
  /\ CanBuild
  /\ \E T \in Kinds : \E v \in Pairs(T), s \in Scalars(T) :
       out' = Call("point2_div_assign", T, <<v, s>>,
                   Point2_div_assign(build, v, s))
  /\ UNCHANGED <<build, b, rd>>

Vector3New ==
  /\ CanBuild
  /\ \E T \in Kinds : \E x \in Vals(T), y \in Vals(T), z \in Vals(T) :
       out' = Call("vector3_new", T, <<x, y, z>>, Vector3_new(build, x, y, z))
  /\ UNCHANGED <<build, b, rd>>

Vector3Index ==
  /\ CanBuild
  /\ \E T \in Kinds : \E v \in Triples(T), idx \in Indices :
       out' = Call("vector3_index", T, <<v, idx>>, Vector3_index(build, v, idx))
  /\ UNCHANGED <<build, b, rd>>

Vector3Div ==
  /\ CanBuild
  /\ \E T \in Kinds : \E v \in Triples(T), s \in Scalars(T) :
       out' = Call("vector3_div", T, <<v, s>>, Vector3_div(build, T, v, s))
  /\ UNCHANGED <<build, b, rd>>

Vector3DivAssign ==
  /\ CanBuild
  /\ \E T \in Kinds : \E v \in Triples(T), s \in Scalars(T) :
       out' = Call("vector3_div_assign", T, <<v, s>>,
                   Vector3_div_assign(build, v, s))
  /\ UNCHANGED <<build, b, rd>>

\* (v * s) / s: the division is not reached when v * s panics
Vector3MulDiv ==
  /\ CanBuild
  /\ \E T \in Kinds : \E v \in Triples(T), s \in Scalars(T) :
       LET m == Vector3_mul(build, v, s)
       IN  out' = Call("vector3_mul_div", T, <<v, s>>,
                       IF BadV(m) THEN m ELSE Vector3_div(build, T, m, s))
  /\ UNCHANGED <<build, b, rd>>

Point3New ==
  /\ CanBuild
  /\ \E T \in Kinds : \E x \in Vals(T), y \in Vals(T), z \in Vals(T) :
       out' = Call("point3_new", T, <<x, y, z>>, Point3_new(build, x, y, z))
  /\ UNCHANGED <<build, b, rd>>

Point3Index ==
  /\ CanBuild
  /\ \E T \in Kinds : \E v \in Triples(T), idx \in Indices :
       out' = Call("point3_index", T, <<v, idx>>, Point3_index(build, v, idx))
  /\ UNCHANGED <<build, b, rd>>

Point3Div ==
  /\ CanBuild
  /\ \E T \in Kinds : \E v \in Triples(T), s \in Scalars(T) :
       out' = Call("point3_div", T, <<v, s>>, Point3_div(build, T, v, s))
  /\ UNCHANGED <<build, b, rd>>

Point3DivAssign ==
  /\ CanBuild
  /\ \E T \in Kinds : \E v \in Triples(T), s \in Scalars(T) :
       out' = Call("point3_div_assign", T, <<v, s>>,
                   Point3_div_assign(build, v, s))
  /\ UNCHANGED <<build, b, rd>>

\* v == rhs, for values that differ in one component at most
Vector2Eq ==
  /\ CanBuild
  /\ \E T \in Kinds : \E v \in Pairs(T), f \in {"x", "y"}, w \in Vals(T) :
       LET rhs == [v EXCEPT ![f] = w]
       IN  out' = Call("vector2_eq", T, <<v, rhs>>, Vector2_eq(v, rhs))
  /\ UNCHANGED <<build, b, rd>>

Point2Eq ==
  /\ CanBuild
  /\ \E T \in Kinds : \E v \in Pairs(T), f \in {"x", "y"}, w \in Vals(T) :
       LET rhs == [v EXCEPT ![f] = w]
       IN  out' = Call("point2_eq", T, <<v, rhs>>, Point2_eq(v, rhs))
  /\ UNCHANGED <<build, b, rd>>

Vector3Eq ==
  /\ CanBuild
  /\ \E T \in Kinds :
       \E v \in Triples(T), f \in {"x", "y", "z"}, w \in Vals(T) :
         LET rhs == [v EXCEPT ![f] = w]
         IN  out' = Call("vector3_eq", T, <<v, rhs>>, Vector3_eq(v, rhs))
  /\ UNCHANGED <<build, b, rd>>

Point3Eq ==
  /\ CanBuild
  /\ \E T \in Kinds :
       \E v \in Triples(T), f \in {"x", "y", "z"}, w \in Vals(T) :
         LET rhs == [v EXCEPT ![f] = w]
         IN  out' = Call("point3_eq", T, <<v, rhs>>, Point3_eq(v, rhs))
  /\ UNCHANGED <<build, b, rd>>

Vector3HasNan ==
  /\ CanBuild
  /\ \E T \in Kinds : \E v \in Triples(T) :
       out' = Call("vector3_has_nan", T, <<v>>, Vector3_has_nan(v))
  /\ UNCHANGED <<build, b, rd>>

Point3HasNan ==
  /\ CanBuild
  /\ \E T \in Kinds : \E v \in Triples(T) :
       out' = Call("point3_has_nan", T, <<v>>, Point3_has_nan(v))
  /\ UNCHANGED <<build, b, rd>>

\* the components of its points: for i32, also the first integer that is
\* no f32
LerpVals(T) == IF T = "i" THEN IntVals \cup {I(F32ExactInt + 1)} ELSE FloatVals

Point2Lerp ==
  /\ CanBuild
  /\ \E T \in Kinds : \E t \in LerpTs :
       \E x0 \in LerpVals(T), y0 \in LerpVals(T), p1 \in Pairs(T) :
         LET p0 == Mk2(x0, y0)
         IN  out' = Call("point2_lerp", T, <<t, p0, p1>>,
                         Point2_lerp(build, T, t, p0, p1))
  /\ UNCHANGED <<build, b, rd>>

Point3Lerp ==
  /\ CanBuild
  /\ \E T \in Kinds : \E t \in LerpTs :
       \E x0 \in LerpVals(T), y0 \in LerpVals(T), p1 \in Pairs(T) :
         LET p0 == Mk3(x0, y0, y0)
             q1 == Mk3(p1.x, p1.x, p1.y)
         IN  out' = Call("point3_lerp", T, <<t, p0, q1>>,
                         Point3_lerp(build, T, t, p0, q1))
  /\ UNCHANGED <<build, b, rd>>

Next ==
  \/ BoundsNew
  \/ BoundsDefault
  \/ BoundsFromPts
  \/ BoundsDiagonal
  \/ BoundsArea
  \/ BoundsMaximumExtent
  \/ BoundsOffset
  \/ BoundsInside
  \/ BoundsInsideExclusive
  \/ BoundsBoundingSphere
  \/ BoundsLerp
  \/ BoundsIndex
  \/ BoundsDrop
  \/ Return
  \/ Vector2New
  \/ Vector2Index
  \/ Vector2Div
  \/ Vector2DivAssign
  \/ Vector2MulDiv
  \/ Point2New
  \/ Point2Index
  \/ Point2Div
  \/ Point2DivAssign
  \/ Vector3New
  \/ Vector3Index
  \/ Vector3Div
  \/ Vector3DivAssign
  \/ Vector3MulDiv
  \/ Point3New
  \/ Point3Index
  \/ Point3Div
  \/ Point3DivAssign
  \/ Vector2Eq
  \/ Point2Eq
  \/ Vector3Eq
  \/ Point3Eq
  \/ Vector3HasNan
  \/ Point3HasNan
  \/ Point2Lerp
  \/ Point3Lerp

Spec == Init /\ [][Next]_vars

(***************************************************************************)
(* The calls on the arithmetic operators of the vector and point types: a  *)
(* caller applies one operator, or a short chain of them, to values of its *)
(* choice, and looks at the result.                                        *)
(***************************************************************************)
\* (p - q) and then q + that vector
Point2SubAdd ==
  /\ CanBuild
  /\ \E T \in Kinds : \E p \in Pairs(T), q \in Pairs(T) :
       LET v == Point2_sub(build, p, q)
           r == IF BadV(v) THEN v ELSE Point2_add(build, q, v)
       IN  out' = Call("point2_sub_add", T, <<p, q>>, r)
  /\ UNCHANGED <<build, b, rd>>

Point3SubAdd ==
  /\ CanBuild
  /\ \E T \in Kinds : \E p2 \in Pairs(T), q2 \in Pairs(T) :
       LET p == Mk3(p2.x, p2.y, p2.y)
           q == Mk3(q2.x, q2.x, q2.y)
           v == Point3_sub(build, p, q)
           r == IF BadV(v) THEN v ELSE Point3_add(build, q, v)
       IN  out' = Call("point3_sub_add", T, <<p, q>>, r)
  /\ UNCHANGED <<build, b, rd>>

Vector2LengthSquared ==
  /\ CanBuild
  /\ \E T \in Kinds : \E v \in Pairs(T) :
       out' = Call("vector2_length_squared", T, <<v>>,
                   Vector2_length_squared(build, v))
  /\ UNCHANGED <<build, b, rd>>

Vector3LengthSquared ==
  /\ CanBuild
  /\ \E T \in Kinds : \E v \in Triples(T) :
       out' = Call("vector3_length_squared", T, <<v>>,
                   Vector3_length_squared(build, v))
  /\ UNCHANGED <<build, b, rd>>

Distance2Squared ==
  /\ CanBuild
  /\ \E T \in Kinds : \E left \in Pairs(T), right \in Pairs(T) :
       out' = Call("distance2_squared", T, <<left, right>>,
                   distance2_squared(build, left, right))
  /\ UNCHANGED <<build, b, rd>>

\* the right operands of the operators on Point3: one component varies
Point3Rhs(T) ==
  {Mk3(s, one(T), one(T)) : s \in Vals(T)}
    \cup {Mk3(one(T), one(T), s) : s \in Vals(T)}

Vector2Add ==
  /\ CanBuild
  /\ \E T \in Kinds : \E v \in Pairs(T), rhs \in Pairs(T) :
       \/ out' = Call("vector2_add", T, <<v, rhs>>,
                      Vector2_add(build, v, rhs))
       \/ out' = Call("vector2_add_assign", T, <<v, rhs>>,
                      Vector2_add_assign(build, v, rhs))
  /\ UNCHANGED <<build, b, rd>>

\* v - rhs, and v -= rhs
Vector2Sub ==
  /\ CanBuild
  /\ \E T \in Kinds : \E v \in Pairs(T), rhs \in Pairs(T) :
       \E op \in {"vector2_sub", "vector2_sub_assign"} :
         out' = Call(op, T, <<v, rhs>>, Vector2_sub(build, v, rhs))
  /\ UNCHANGED <<build, b, rd>>

\* v * s, and v *= s
Vector2Mul ==
  /\ CanBuild
  /\ \E T \in Kinds : \E v \in Pairs(T), s \in Scalars(T) :
       \E op \in {"vector2_mul", "vector2_mul_assign"} :
         out' = Call(op, T, <<v, s>>, Vector2_mul(build, v, s))
  /\ UNCHANGED <<build, b, rd>>

Vector2Neg ==
  /\ CanBuild
  /\ \E T \in Kinds : \E v \in Pairs(T) :
       out' = Call("vector2_neg", T, <<v>>, Vector2_neg(build, v))
  /\ UNCHANGED <<build, b, rd>>

\* p + v and p + q, p += v, p += q
Point3Add ==
  /\ CanBuild
  /\ \E T \in Kinds : \E p \in Triples(T), rhs \in Point3Rhs(T) :
       \/ out' = Call("point3_add", T, <<p, rhs>>,
                      Point3_add(build, p, rhs))
       \/ out' = Call("point3_add_assign_vector", T, <<p, rhs>>,
                      Point3_add_assign_vector(build, p, rhs))
       \/ out' = Call("point3_add_assign", T, <<p, rhs>>,
                      Point3_add_assign(build, p, rhs))
  /\ UNCHANGED <<build, b, rd>>

\* p - v, p - q, p -= v
Point3Sub ==
  /\ CanBuild
  /\ \E T \in Kinds : \E p \in Triples(T), rhs \in Point3Rhs(T) :
       \/ out' = Call("point3_sub_vector", T, <<p, rhs>>,
                      Point3_sub_vector(build, p, rhs))
       \/ out' = Call("point3_sub", T, <<p, rhs>>,
                      Point3_sub(build, p, rhs))
       \/ out' = Call("point3_sub_assign", T, <<p, rhs>>,
                      Point3_sub_assign(build, p, rhs))
  /\ UNCHANGED <<build, b, rd>>

\* p * s and p *= s; &p * f for a Float f
Point3Mul ==
  /\ CanBuild
  /\ \E T \in Kinds : \E p \in Triples(T) :
       \/ \E s \in Scalars(T), op \in {"point3_mul", "point3_mul_assign"} :
            out' = Call(op, T, <<p, s>>, Point3_mul(build, p, s))
       \/ \E f \in {NaN, Inf(1), Inf(-1), F(0), F(1)} :
            out' = Call("point3_mul_float", T, <<p, f>>,
                        Point3_mul_float(build, T, p, f))
  /\ UNCHANGED <<build, b, rd>>

Point3Neg ==
  /\ CanBuild
  /\ \E T \in Kinds : \E p \in Triples(T) :
       out' = Call("point3_neg", T, <<p>>, Point3_neg(build, p))
  /\ UNCHANGED <<build, b, rd>>

OpNext ==
  \/ Point2SubAdd
  \/ Point3SubAdd
  \/ Vector2LengthSquared
  \/ Vector3LengthSquared
  \/ Distance2Squared
  \/ Vector2New
  \/ Vector2Add
  \/ Vector2Sub
  \/ Vector2Mul
  \/ Vector2Div
  \/ Vector2DivAssign
  \/ Vector2Neg
  \/ Point3New
  \/ Point3Add
  \/ Point3Sub
  \/ Point3Mul
  \/ Point3Div
  \/ Point3DivAssign
  \/ Point3Neg
  \/ Return

OpSpec == Init /\ [][OpNext]_vars

(***************************************************************************)
(* The calls on rays.  A caller builds a Ray and lets it go, or wraps it   *)
(* in a RayDifferential; or builds a RayDifferential from an origin and a  *)
(* direction; it then queries and scales the RayDifferential it holds.     *)
(***************************************************************************)
\* the origins and directions: small points, a NaN in each single position
\* and in all, an infinity
RayPts ==
  {Mk3(F(x), F(1), F(2)) : x \in 0..MaxVal}
    \cup {Mk3(NaN, F(1), F(1)), Mk3(F(1), NaN, F(1)), Mk3(F(1), F(1), NaN),
          Mk3(NaN, NaN, NaN), Mk3(Inf(1), F(1), F(1))}

\* an origin and a direction, one of them with three equal components
RayODs ==
  LET plain == {Mk3(F(x), F(x), F(x)) : x \in 1..MaxVal}
  IN  (plain \X RayPts) \cup (RayPts \X plain)

\* the parameters a ray is evaluated at and scaled by
RayTs == {NaN, F(0), Fin(0, 1, 2), F(1), F(2)}

CanRay == out = Idle /\ rd # NoRay

RayFromOd ==
  /\ CanBuild
  /\ \E od \in RayODs :
       out' = Call("ray_from_od", "f", od, Ray_from_od(od[1], od[2]))
  /\ UNCHANGED <<build, b, rd>>

RayNew ==
  /\ CanBuild
  /\ \E od \in RayODs, t_max \in {None, NaN, F(1)}, time \in {None, F(1)},
        medium \in {None, TheMedium} :
       out' = Call("ray_new", "f", <<od[1], od[2], t_max, time, medium>>,
                   Ray_new(od[1], od[2], t_max, time, medium))
  /\ UNCHANGED <<build, b, rd>>

\* from_ray(&ray) of the Ray just built
RayDifferentialFromRay ==
  /\ out.op \in {"ray_from_od", "ray_new"}
  /\ rd = NoRay
  /\ rd' = RayDifferential_from_ray(out.r)
  /\ out' = Call("rd_from_ray", "f", <<out.r>>, rd')
  /\ UNCHANGED <<build, b>>

RayDifferentialFromOd ==
  /\ CanBuild
  /\ \E od \in RayODs :
       /\ rd' = RayDifferential_from_od(od[1], od[2])
       /\ out' = Call("rd_from_od", "f", od, rd')
  /\ UNCHANGED <<build, b>>

\* new() with direction (1, 1, 1), three auxiliary arguments Some((1, 1, 2))
\* and the fourth any point or None
RayDifferentialNew ==
  /\ CanBuild
  /\ \E o \in RayPts, has_differential \in BOOLEAN, k \in 1..4,
        v \in RayPts \cup {None} :
       LET d == Mk3(F(1), F(1), F(1))
           aux == [i \in 1..4 |->
                     IF i = k THEN v ELSE Mk3(F(1), F(1), F(2))]
       IN  /\ rd' = RayDifferential_new(o, d, has_differential,
                                        aux[1], aux[2], aux[3], aux[4])
           /\ out' = Call("rd_new", "f",
                          <<o, d, has_differential, aux>>, rd')
  /\ UNCHANGED <<build, b>>

RayDefault ==
  /\ CanBuild
  /\ out' = Call("ray_default", "f", <<>>, Ray_default)
  /\ UNCHANGED <<build, b, rd>>

RayDifferentialDefault ==
  /\ CanBuild
  /\ rd' = RayDifferential_default
  /\ out' = Call("rd_default", "f", <<>>, rd')
  /\ UNCHANGED <<build, b>>

RayHasNan ==
  /\ CanRay
  /\ out' = Call("ray_has_nan", "f", <<rd.ray>>, Ray_has_nan(rd.ray))
  /\ UNCHANGED <<build, b, rd>>

\* ray(t); the argument list records the ray the call is made on
RayCall ==
  /\ CanRay
  /\ \E t \in RayTs :
       out' = Call("ray_call", "f", <<rd.ray, t>>, Ray_call(build, rd.ray, t))
  /\ UNCHANGED <<build, b, rd>>

RayDifferentialHasNan ==
  /\ CanRay
  /\ out' = Call("rd_has_nan", "f", <<rd>>, RayDifferential_has_nan(rd))
  /\ UNCHANGED <<build, b, rd>>

\* the auxiliary data of rd is as it was built: the model scales a
\* RayDifferential once
Unscaled ==
  LET built == RayPts \cup {Point3_default("f"), Mk3(F(1), F(1), F(2))}
  IN  /\ rd.rx_origin \in built
      /\ rd.ry_origin \in built
      /\ rd.rx_direction \in built
      /\ rd.ry_direction \in built

\* scale_differential(s) on &mut self; a panic unwinds and the value is
\* lost.  The argument list records the value before the call.
RayDifferentialScaleDifferential ==
  /\ CanRay
  /\ Unscaled
  /\ \E s \in RayTs :
       LET r == RayDifferential_scale_differential(build, rd, s)
       IN  /\ rd' = IF r = PANIC THEN NoRay ELSE r
           /\ out' = Call("scale_differential", "f", <<rd, s>>, r)
  /\ UNCHANGED <<build, b>>

\* scale_differential(s2) straight after a scale_differential(s1) that
\* returned; the argument list records the value before the first call and
\* both factors
RayDifferentialScaleDifferentialTwice ==
  /\ out.op = "scale_differential"
  /\ rd # NoRay
  /\ \E s2 \in {Fin(0, 1, 2), F(2)} :
       LET r == RayDifferential_scale_differential(build, rd, s2)
       IN  /\ rd' = IF r = PANIC THEN NoRay ELSE r
           /\ out' = Call("scale_differential_twice", "f",
                          <<out.a[1], out.a[2], s2>>, r)
  /\ UNCHANGED <<build, b>>

\* the RayDifferential goes out of scope
RayDrop ==
  /\ CanRay
  /\ rd' = NoRay
  /\ UNCHANGED <<build, b, out>>

RayNext ==
  \/ RayFromOd
  \/ RayNew
  \/ RayDifferentialFromRay
  \/ RayDifferentialFromOd
  \/ RayDifferentialNew
  \/ RayDefault
  \/ RayDifferentialDefault
  \/ RayHasNan
  \/ RayCall
  \/ RayDifferentialHasNan
  \/ RayDifferentialScaleDifferential
  \/ RayDifferentialScaleDifferentialTwice
  \/ RayDrop
  \/ Return

RaySpec == Init /\ [][RayNext]_vars

(***************************************************************************)
(* The properties.                                                         *)
(***************************************************************************)
\* a <= c in the order of the scalars, said with Lt alone
Leq(a, c) ==
  IF a.k = "int" THEN a.n <= c.n
  ELSE a.k # "nan" /\ c.k # "nan" /\ ~FloatLt(c, a)

\* m is the lesser (the greater) of a and c
IsLeast(m, a, c) == m \in {a, c} /\ Leq(m, a) /\ Leq(m, c)
IsGreatest(m, a, c) == m \in {a, c} /\ Leq(a, m) /\ Leq(c, m)

\* a - c is computed without overflow: no i32 wrap-around, a finite Float
\* from finite Floats
ExactSub(a, c) ==
  IF a.k = "int" THEN ~SubOverflows(a.n, c.n)
  ELSE a.k = "fin" /\ c.k = "fin" /\ FloatSub(a, c).k = "fin"

ExactAdd(a, c) ==
  IF a.k = "int" THEN ~AddOverflows(a.n, c.n)
  ELSE a.k = "fin" /\ c.k = "fin" /\ FloatAdd(a, c).k = "fin"

\* the extent of bb is computed without overflow on both axes
ExactExtent(bb) ==
  /\ ~BadB(bb)
  /\ ExactSub(bb.p_max.x, bb.p_min.x)
  /\ ExactSub(bb.p_max.y, bb.p_min.y)

\* p_min <= p_max on both axes
Ordered(bb) ==
  ~BadB(bb) /\ Leq(bb.p_min.x, bb.p_max.x) /\ Leq(bb.p_min.y, bb.p_max.y)

\* C1: for points p1, p2 with no NaN component, of either scalar type,
\* from_pts(p1, p2) returns a bounds with p_min.x <= p_max.x and
\* p_min.y <= p_max.y, p_min being the per-axis minimum and p_max the
\* per-axis maximum of the two inputs, whatever their order or arrangement.
C1_FromPtsPerAxis ==
  (out.op = "from_pts" /\ ~Point2_has_nan(out.a[1])
     /\ ~Point2_has_nan(out.a[2])) =>
    LET p1 == out.a[1]
        p2 == out.a[2]
        r == out.r
    IN  /\ ~BadB(r)
        /\ Leq(r.p_min.x, r.p_max.x)
        /\ Leq(r.p_min.y, r.p_max.y)
        /\ IsLeast(r.p_min.x, p1.x, p2.x)
        /\ IsLeast(r.p_min.y, p1.y, p2.y)
        /\ IsGreatest(r.p_max.x, p1.x, p2.x)
        /\ IsGreatest(r.p_max.y, p1.y, p2.y)
        /\ Held = r

\* from_pts on two opposite corners given as (left, top), (right, bottom),
\* as test_from_pts does
C1_Witness ==
  /\ out.op = "from_pts"
  /\ ~Point2_has_nan(out.a[1]) /\ ~Point2_has_nan(out.a[2])
  /\ Lt(out.a[1].x, out.a[2].x)
  /\ Gt(out.a[1].y, out.a[2].y)
  /\ out.r.p_min = Mk2(out.a[1].x, out.a[2].y)
  /\ out.r.p_max = Mk2(out.a[2].x, out.a[1].y)

\* C2 as stated: for all points p1, p2, from_pts(p1, p2) and
\* from_pts(p2, p1) have equal p_min and equal p_max.
C2_OrderIndependentAllPoints ==
  out.op = "from_pts" =>
    out.r = Bounds2_from_pts(build, out.a[2], out.a[1])

\* C2 as amended: for all points p1, p2 with no NaN component,
\* from_pts(p1, p2) and from_pts(p2, p1) return, and return bounds with
\* equal p_min and equal p_max.
C2_OrderIndependentNoNaN ==
  (out.op = "from_pts" /\ ~Point2_has_nan(out.a[1])
     /\ ~Point2_has_nan(out.a[2])) =>
    LET swapped == Bounds2_from_pts(build, out.a[2], out.a[1])
    IN  /\ ~BadB(out.r)
        /\ ~BadB(swapped)
        /\ Point2_eq(out.r.p_min, swapped.p_min)
        /\ Point2_eq(out.r.p_max, swapped.p_max)

\* from_pts on two distinct NaN-free points whose x and y are ordered
\* oppositely, so that swapping them changes each argument's corner
C2_Witness ==
  /\ out.op = "from_pts"
  /\ ~Point2_has_nan(out.a[1]) /\ ~Point2_has_nan(out.a[2])
  /\ Gt(out.a[1].x, out.a[2].x)
  /\ Lt(out.a[1].y, out.a[2].y)
  /\ ~BadB(out.r)

\* C3 as stated: maximum_extent() returns 0 whenever diagonal.x >=
\* diagonal.y (ties included) and 1 only when diagonal.y > diagonal.x.
\* (Checked on the bounds whose diagonal is computed without overflow.)
C3_TiesResolveToAxis0 ==
  (out.op = "maximum_extent" /\ ~Bad(out.r) /\ ExactExtent(Held)) =>
    LET d == Bounds2_diagonal(build, Held)
    IN  /\ Leq(d.y, d.x) => out.r = I(0)
        /\ out.r = I(1) => Lt(d.x, d.y)

\* C3 as amended: maximum_extent() returns 0 exactly when diagonal.x >
\* diagonal.y and 1 otherwise, so ties (diagonal.x = diagonal.y) resolve to
\* axis 1; it returns whenever diagonal() does.
C3_TiesResolveToAxis1 ==
  out.op = "maximum_extent" =>
    LET d == Bounds2_diagonal(build, Held)
    IN  /\ Bad(out.r) <=> BadV(d)
        /\ ~BadV(d) =>
             /\ out.r \in {I(0), I(1)}
             /\ out.r = I(0) <=> (Leq(d.y, d.x) /\ d.x # d.y)
             /\ (d.x = d.y) => out.r = I(1)

\* maximum_extent on a square box of positive extent (a tie)
C3_Witness ==
  /\ out.op = "maximum_extent"
  /\ ExactExtent(Held)
  /\ Lt(b.p_min.x, b.p_max.x)
  /\ LET d == Bounds2_diagonal(build, Held)
     IN  ~BadV(d) /\ d.x = d.y
  /\ out.r = I(1)


\* C4 as stated: for every Bounds2<S> with p_min <= p_max per axis, of
\* either scalar type, bounding_sphere writes center = (p_min + p_max) / 2
\* per axis, and radius = distance(center, p_max) when inside(center,
\* bounds), else radius = 0.
\* (Checked on the bounds whose p_min + p_max is computed without overflow;
\* the midpoint is the scalar type's own (p_min + p_max) / 2.)
C4_SphereCenterIsMidpoint ==
  (out.op = "bounding_sphere" /\ Ordered(Held)
     /\ ExactAdd(b.p_min.x, b.p_max.x) /\ ExactAdd(b.p_min.y, b.p_max.y)) =>
    LET two == IF b.T = "i" THEN I(2) ELSE F(2)
        mid == Mk2(Div(Add(build, b.p_min.x, b.p_max.x), two),
                   Div(Add(build, b.p_min.y, b.p_max.y), two))
    IN  /\ ~BadV(out.r.c)
        /\ out.r.c = mid
        /\ out.r.rad = IF Bounds2_inside(mid, Held)
                       THEN distance2(build, mid, b.p_max)
                       ELSE F(0)

\* C5 as stated: on an axis where p_max equals p_min the component that
\* offset(p) returns is the raw p - p_min; on an axis where p_max > p_min
\* it is (p - p_min) / (p_max - p_min), which lies in [0, 1] for every p
\* inside the box.
OffsetAxis(pmin, pmax, pp, o, T, exactOnly) ==
  /\ Eq(pmax, pmin) => o = Sub(build, pp, pmin)
  /\ Gt(pmax, pmin) =>
       /\ o = Div(Sub(build, pp, pmin), Sub(build, pmax, pmin))
       /\ (Bounds2_inside(out.a[1], Held)
             /\ (exactOnly => ExactSub(pmax, pmin) /\ ExactSub(pp, pmin))) =>
            (Leq(zero(T), o) /\ Leq(o, one(T)))

C5_OffsetInUnitRange ==
  (out.op = "offset" /\ ~BadV(out.r)) =>
    /\ OffsetAxis(b.p_min.x, b.p_max.x, out.a[1].x, out.r.x, b.T, FALSE)
    /\ OffsetAxis(b.p_min.y, b.p_max.y, out.a[1].y, out.r.y, b.T, FALSE)

\* C5 as amended: offset(p) never divides by zero: on an axis where p_max
\* equals p_min the returned component is the raw p - p_min, and on an
\* axis where p_max > p_min it is (p - p_min) / (p_max - p_min), which lies
\* in [0, 1] for every p inside the box when p_max - p_min and p - p_min
\* are computed without overflow on that axis (no i32 wrap-around, finite
\* Float operands and differences).
C5_OffsetInUnitRangeNoOverflow ==
  (out.op = "offset" /\ ~BadV(out.r)) =>
    /\ OffsetAxis(b.p_min.x, b.p_max.x, out.a[1].x, out.r.x, b.T, TRUE)
    /\ OffsetAxis(b.p_min.y, b.p_max.y, out.a[1].y, out.r.y, b.T, TRUE)

\* offset of a point strictly inside a box that has zero extent on x and a
\* positive extent on y
C5_Witness ==
  /\ out.op = "offset"
  /\ ExactExtent(Held)
  /\ Eq(b.p_max.x, b.p_min.x)
  /\ Gt(b.p_max.y, b.p_min.y)
  /\ Bounds2_inside(out.a[1], Held)
  /\ Gt(out.a[1].y, b.p_min.y)
  /\ ~BadV(out.r)
  /\ IsZero(out.r.x)
  /\ Leq(out.r.y, one(b.T))

\* C6: inside(p, b) is true iff p_min <= p <= p_max on both axes, and
\* inside_exclusive(p, b) iff p_min <= p < p_max on both axes; p_min of a
\* box with positive extent is in both, p_max is inside and not
\* inside_exclusive.
C6_InsideClosedAndHalfOpen ==
  /\ out.op = "inside" =>
       LET p == out.a[1]
       IN  /\ out.r <=> /\ Leq(b.p_min.x, p.x) /\ Leq(p.x, b.p_max.x)
                        /\ Leq(b.p_min.y, p.y) /\ Leq(p.y, b.p_max.y)
           /\ (Ordered(Held) /\ p \in {b.p_min, b.p_max}) => out.r
  /\ out.op = "inside_exclusive" =>
       LET p == out.a[1]
           strict(x, y) == Leq(x, y) /\ ~Leq(y, x)
       IN  /\ out.r <=> /\ Leq(b.p_min.x, p.x) /\ strict(p.x, b.p_max.x)
                        /\ Leq(b.p_min.y, p.y) /\ strict(p.y, b.p_max.y)
           /\ (p = b.p_min /\ Lt(b.p_min.x, b.p_max.x)
                 /\ Lt(b.p_min.y, b.p_max.y)) => out.r
           /\ (~BadB(Held) /\ p = b.p_max) => ~out.r

\* inside_exclusive of p_max of a box of positive extent: false
C6_Witness ==
  /\ out.op = "inside_exclusive"
  /\ Lt(b.p_min.x, b.p_max.x)
  /\ Lt(b.p_min.y, b.p_max.y)
  /\ out.a[1] = b.p_max
  /\ out.r = FALSE


\* C7: in every build, index 0 yields x and index 1 yields y of a
\* Vector2/Point2, index 2 additionally yields z of a Vector3/Point3,
\* index 0 yields p_min and index 1 p_max of a Bounds2, and every other
\* index panics without returning a value.
C7_IndexTotalOrFatal ==
  /\ out.op \in {"vector2_index", "point2_index"} =>
       LET v == out.a[1]
           idx == out.a[2]
       IN  out.r = CASE idx = 0 -> v.x
                     [] idx = 1 -> v.y
                     [] OTHER -> PANIC
  /\ out.op \in {"vector3_index", "point3_index"} =>
       LET v == out.a[1]
           idx == out.a[2]
       IN  out.r = CASE idx = 0 -> v.x
                     [] idx = 1 -> v.y
                     [] idx = 2 -> v.z
                     [] OTHER -> PANIC
  /\ out.op = "bounds_index" =>
       LET idx == out.a[1]
       IN  out.r = CASE idx = 0 -> b.p_min
                     [] idx = 1 -> b.p_max
                     [] OTHER -> Panic2

\* index 2 of a Vector2 in the release build: a panic
C7_Witness ==
  /\ build = "release"
  /\ out.op = "vector2_index"
  /\ out.a[2] = 2
  /\ out.r = PANIC

\* C8: in the debug build, new of Vector2, Vector3, Point2 or Point3 with a
\* NaN component panics and constructs no value; with no NaN component it
\* returns the value whose components are the arguments.
C8_DebugNewRejectsNaN ==
  (build = "debug"
     /\ out.op \in {"vector2_new", "point2_new", "vector3_new", "point3_new"})
  =>
    IF \E i \in 1..Len(out.a) : out.a[i] = NaN
    THEN out.r.x = PANIC
    ELSE IF Len(out.a) = 2
    THEN out.r = [x |-> out.a[1], y |-> out.a[2]]
    ELSE out.r = [x |-> out.a[1], y |-> out.a[2], z |-> out.a[3]]

\* Point3::new in the debug build with NaN as the z argument only: a panic
C8_Witness ==
  /\ build = "debug"
  /\ out.op = "point3_new"
  /\ out.a[1] # NaN
  /\ out.a[2] # NaN
  /\ out.a[3] = NaN
  /\ out.r.x = PANIC

\* C9 as stated: in the debug build, dividing a vector or point by the
\* scalar zero panics instead of producing a result, for v / s and for
\* v /= s alike, whatever the components of v.
C9_DebugDivByZeroAsserts ==
  (build = "debug"
     /\ out.op \in {"vector2_div", "vector2_div_assign",
                    "point2_div", "point2_div_assign",
                    "vector3_div", "vector3_div_assign",
                    "point3_div", "point3_div_assign"}
     /\ out.a[2] = zero(out.T))
  => out.r.x = PANIC

\* C10 as stated: for every vector v and scalar s # 0 of the scalar type,
\* (v * s) / s equals v (for i32, where v * s does not overflow).
\* (Checked on finite v and s whose products v * s are finite.)
FiniteArg(a) == a.k \in {"int", "fin"}

C10_MulDivInverse ==
  (out.op \in {"vector2_mul_div", "vector3_mul_div"}
     /\ FiniteArg(out.a[2]) /\ out.a[2] # zero(out.T))
  =>
    LET v == out.a[1]
        s == out.a[2]
        axes == IF out.op = "vector2_mul_div" THEN {"x", "y"}
                ELSE {"x", "y", "z"}
        fits(c) == /\ FiniteArg(c)
                   /\ IF c.k = "int" THEN ~MulOverflows(c.n, s.n)
                      ELSE FloatMul(c, s).k = "fin"
    IN  (\A f \in axes : fits(v[f])) => out.r = v

\* C11 as stated: two Vector2, Point2, Vector3 or Point3 values compare
\* equal if and only if every pair of corresponding components is equal;
\* values that differ in a single component compare unequal.
C11_EqComponentWise ==
  (out.op \in {"vector2_eq", "point2_eq", "vector3_eq", "point3_eq"}) =>
    LET v == out.a[1]
        rhs == out.a[2]
    IN  out.r <=> \A f \in DOMAIN v : Eq(v[f], rhs[f])

\* C12 as stated: Point3::has_nan() is true if and only if at least one of
\* x, y, z is NaN, as Vector3::has_nan() is.
C12_Point3HasNanAnyComponent ==
  (out.op \in {"point3_has_nan", "vector3_has_nan"}) =>
    (out.r <=> \E f \in {"x", "y", "z"} : out.a[1][f] = NaN)

\* some component of the three-component value p is NaN
AnyNaN3(p) == \E f \in {"x", "y", "z"} : p[f] = NaN

\* C13 as stated: Ray::has_nan() is true whenever a component of the origin
\* or of the direction, or t_max, is NaN, and false otherwise.
C13_RayHasNanAnyField ==
  (out.op = "ray_has_nan") =>
    LET r == out.a[1]
    IN  out.r <=> (AnyNaN3(r.o) \/ AnyNaN3(r.d) \/ r.t_max = NaN)

\* C14 as stated: RayDifferential::has_nan() equals ray.has_nan() OR
\* (has_differential AND one of rx_origin, ry_origin, rx_direction,
\* ry_direction has a NaN component); a NaN in the auxiliary data is never
\* reported while has_differential is false.
C14_RayDifferentialHasNan ==
  (out.op = "rd_has_nan") =>
    LET self == out.a[1]
    IN  out.r <=>
          \/ Ray_has_nan(self.ray)
          \/ /\ self.has_differential
             /\ \/ AnyNaN3(self.rx_origin) \/ AnyNaN3(self.ry_origin)
                \/ AnyNaN3(self.rx_direction) \/ AnyNaN3(self.ry_direction)

\* component f of origin + direction * t in Float arithmetic
RayAt(r, t, f) == FloatAdd(r.o[f], FloatMul(r.d[f], t))

\* C15: evaluating a ray at t returns origin + direction * t component by
\* component, whatever t_max is, and leaves the ray as it was; the only
\* other outcome is the debug build's assertion on a NaN operand or result.
C15_RayCallNoClamp ==
  (out.op = "ray_call") =>
    LET r == out.a[1]
        t == out.a[2]
        axes == {"x", "y", "z"}
        nan == \/ t = NaN
               \/ \E f \in axes : NaN \in {r.o[f], r.d[f], RayAt(r, t, f)}
    IN  /\ rd.ray = r
        /\ IF PanicV(out.r) THEN build = "debug" /\ nan
           ELSE \A f \in axes : out.r[f] = RayAt(r, t, f)

\* a ray with t_max = 1 evaluated at t = 2: (1, 1, 2) + (2, 2, 2) * 2
C15_Witness ==
  /\ out.op = "ray_call"
  /\ out.a[1].o = Mk3(F(1), F(1), F(2))
  /\ out.a[1].d = Mk3(F(2), F(2), F(2))
  /\ out.a[1].t_max = F(1)
  /\ out.a[2] = F(2)
  /\ out.r = Mk3(F(5), F(5), F(6))

\* component f of base + (old - base) * s in Float arithmetic
ScaledAt(base, old, s, f) ==
  FloatAdd(base[f], FloatMul(FloatSub(old[f], base[f]), s))

\* a NaN operand, difference, product or sum in base + (old - base) * s
ScaledNaN(base, old, s) ==
  \E f \in {"x", "y", "z"} :
    NaN \in {base[f], old[f], FloatSub(old[f], base[f]),
             FloatMul(FloatSub(old[f], base[f]), s), ScaledAt(base, old, s, f)}

\* C16: scale_differential(s) replaces each auxiliary origin by
\* ray.o + (old - ray.o) * s and each auxiliary direction by
\* ray.d + (old - ray.d) * s, every one computed from the values before the
\* call, and leaves the primary ray and has_differential as they were; the
\* only other outcome is the debug build's assertion on a NaN.
C16_ScaleDifferential ==
  (out.op = "scale_differential") =>
    LET old == out.a[1]
        s == out.a[2]
        o == old.ray.o
        d == old.ray.d
        axes == {"x", "y", "z"}
    IN  IF out.r = PANIC
        THEN /\ build = "debug"
             /\ \/ s = NaN
                \/ ScaledNaN(o, old.rx_origin, s)
                \/ ScaledNaN(o, old.ry_origin, s)
                \/ ScaledNaN(d, old.rx_direction, s)
                \/ ScaledNaN(d, old.ry_direction, s)
        ELSE /\ rd = out.r
             /\ rd.ray = old.ray
             /\ rd.has_differential = old.has_differential
             /\ \A f \in axes :
                  /\ rd.rx_origin[f] = ScaledAt(o, old.rx_origin, s, f)
                  /\ rd.ry_origin[f] = ScaledAt(o, old.ry_origin, s, f)
                  /\ rd.rx_direction[f] = ScaledAt(d, old.rx_direction, s, f)
                  /\ rd.ry_direction[f] = ScaledAt(d, old.ry_direction, s, f)

\* o = (2, 1, 2), d = (1, 1, 1), rx_origin = (0, 1, 2) and the other
\* auxiliary values (1, 1, 2), scaled by 2
C16_Witness ==
  /\ out.op = "scale_differential"
  /\ out.a[2] = F(2)
  /\ out.a[1].has_differential
  /\ out.a[1].ray.o = Mk3(F(2), F(1), F(2))
  /\ out.a[1].rx_origin = Mk3(F(0), F(1), F(2))
  /\ rd.has_differential
  /\ rd.rx_origin = Mk3(F(-2), F(1), F(2))
  /\ rd.ry_origin = Mk3(F(0), F(1), F(2))
  /\ rd.rx_direction = Mk3(F(1), F(1), F(3))
  /\ rd.ry_direction = Mk3(F(1), F(1), F(3))

\* the ray with origin o, direction d and every optional field defaulted
DefaultedRay(o, d) ==
  [o |-> o, d |-> d, t_max |-> Inf(1), time |-> F(0), medium |-> None]

\* C17: a ray built by Ray::from_od, or by Ray::new with the optional
\* arguments absent, and the inner ray of RayDifferential::new / from_od,
\* has t_max = +infinity, time = 0, no medium, and the origin and direction
\* given; a t_max, time or medium supplied to Ray::new is stored as given.
C17_RayConstruction ==
  /\ (out.op = "ray_from_od") => out.r = DefaultedRay(out.a[1], out.a[2])
  /\ (out.op \in {"rd_from_od", "rd_new"}) =>
       out.r.ray = DefaultedRay(out.a[1], out.a[2])
  /\ (out.op = "rd_from_ray") => out.r.ray = out.a[1]
  /\ (out.op = "ray_new") =>
       LET t_max == out.a[3]
           time == out.a[4]
           medium == out.a[5]
       IN  /\ out.r.o = out.a[1]
           /\ out.r.d = out.a[2]
           /\ out.r.t_max = IF t_max = None THEN Inf(1) ELSE t_max
           /\ out.r.time = IF time = None THEN F(0) ELSE time
           /\ out.r.medium = medium

\* Ray::new with t_max Some(1) and a medium, and time absent
C17_Witness ==
  /\ out.op = "ray_new"
  /\ out.a[3] = F(1)
  /\ out.a[4] = None
  /\ out.a[5] = TheMedium
  /\ out.r.t_max = F(1)
  /\ out.r.time = F(0)
  /\ out.r.medium = TheMedium

\* the empty bounds of scalar type T
EmptyBounds(T) ==
  [p_min |-> Mk2(max_value(T), max_value(T)),
   p_max |-> Mk2(min_value(T), min_value(T))]

\* C18: Bounds2::new() has p_min = max_value() and p_max = min_value() on
\* both axes, for Float and for Int, and inside(p, .) is false of it for
\* every point p.
C18_NewIsEmpty ==
  /\ (out.op = "new") => out.r = EmptyBounds(out.T)
  /\ (out.op = "inside" /\ Held = EmptyBounds(b.T)) => out.r = FALSE

\* the point (Float::MAX, Float::MAX), which is p_min itself, is not
\* inside the empty Float bounds
C18_Witness ==
  /\ out.op = "inside"
  /\ Held = EmptyBounds("f")
  /\ out.a[1] = Mk2(FloatMAX, FloatMAX)
  /\ out.r = FALSE

\* C19 as stated: Bounds2::default() is the empty bounds, p_min = max_value
\* and p_max = min_value on both axes, the value of Bounds2::new().
C19_DefaultIsEmpty ==
  (out.op = "default") =>
    out.r = EmptyBounds(out.T) /\ out.r = Bounds2_new(build, out.T)

\* an i32 component is an f32 exactly
F32Exact(c) == (c.k = "int") => (c.n <= F32ExactInt /\ c.n >= -F32ExactInt)

\* F32Exact, and a Float component is neither NaN nor infinite
F32ExactFinite(c) == F32Exact(c) /\ FiniteArg(c)

\* lerp(0, a, b) == a and lerp(1, a, b) == b for the call in out, when
\* every component of a and of b satisfies Covered
LerpEndpoints(Covered(_)) ==
  (out.op \in {"point2_lerp", "point3_lerp"} /\ out.a[1] \in {F(0), F(1)}) =>
    LET t == out.a[1]
        a == out.a[2]
        bb == out.a[3]
        end == IF t = F(0) THEN a ELSE bb
    IN  (\A f \in DOMAIN a : Covered(a[f]) /\ Covered(bb[f])) =>
          IF out.op = "point2_lerp" THEN Point2_eq(out.r, end)
          ELSE Point3_eq(out.r, end)

\* C20 as stated: lerp(0, a, b) == a and lerp(1, a, b) == b for all points
\* a and b of either scalar type (i32 components within the range that f32
\* holds exactly), for Point2 and Point3.
C20_LerpEndpointsAll == LerpEndpoints(F32Exact)

\* C20, amended: the same for points a and b whose Float components are
\* finite (neither NaN nor infinite).
C20_LerpEndpointsFinite == LerpEndpoints(F32ExactFinite)

\* lerp(1, (1, 2), (2, 0)) on Point2i is (2, 0)
C20_Witness ==
  /\ out.op = "point2_lerp"
  /\ out.T = "i"
  /\ out.a = <<F(1), Mk2(I(1), I(2)), Mk2(I(2), I(0))>>
  /\ out.r = Mk2(I(2), I(0))

\* a - c is computed exactly: no i32 overflow; for Float, finite operands of
\* one order of magnitude (or a zero), so that nothing is rounded away, and
\* a finite difference
SubIsExact(a, c) ==
  IF a.k = "int" THEN ~SubOverflows(a.n, c.n)
  ELSE /\ a.k = "fin" /\ c.k = "fin"
       /\ (IsZero(a) \/ IsZero(c) \/ a.t = c.t)
       /\ FloatSub(a, c).k = "fin"

\* q + (p - q) == p for the call in out, when every pair of components of
\* p and q satisfies Covered
SubAddRoundTrip(Covered(_, _)) ==
  (out.op \in {"point2_sub_add", "point3_sub_add"}) =>
    LET p == out.a[1]
        q == out.a[2]
    IN  (\A f \in DOMAIN p : Covered(p[f], q[f])) =>
          IF out.op = "point2_sub_add" THEN Point2_eq(out.r, p)
          ELSE Point3_eq(out.r, p)

\* an i32 difference that does not overflow, or any Float difference
NoIntOverflow(a, c) == (a.k = "int") => ~SubOverflows(a.n, c.n)

\* C21 as stated: for all points p, q of one dimension and scalar type,
\* p - q is a vector v with q + v == p (for i32 whenever p - q does not
\* overflow).
C21_SubAddRoundTripAll == SubAddRoundTrip(NoIntOverflow)

\* C21, amended: the same, for Float whenever p - q is computed exactly
\* (finite components, nothing rounded away, a finite difference).
C21_SubAddRoundTripExact == SubAddRoundTrip(SubIsExact)

\* (2, 1) - (1, 2) = (1, -1) and (1, 2) + (1, -1) = (2, 1) on Point2f
C21_Witness ==
  /\ out.op = "point2_sub_add"
  /\ out.a = <<Mk2(F(2), F(1)), Mk2(F(1), F(2))>>
  /\ out.r = Mk2(F(2), F(1))

\* the area in out is diagonal().x * diagonal().y and is not negative, for
\* a bounds other than the empty one of new() (one that from_pts builds)
\* that satisfies Covered
AreaOfDiagonal(Covered(_)) ==
  (out.op = "area" /\ Held # EmptyBounds(b.T) /\ Covered(Held)) =>
    LET d == Bounds2_diagonal(build, Held)
    IN  /\ out.r = Mul(build, d.x, d.y)
        /\ ~Bad(out.r) => ~Lt(out.r, zero(b.T))
        /\ (~Bad(out.r) /\ Lt(out.r, zero(b.T))) => ~Ordered(Held)

AnyBounds(bb) == TRUE

\* for i32, p_max - p_min and the product of its components do not overflow
ExactArea(bb) ==
  (b.T = "i") =>
    /\ ExactExtent(bb)
    /\ ~MulOverflows(bb.p_max.x.n - bb.p_min.x.n, bb.p_max.y.n - bb.p_min.y.n)

\* C22 as stated: for every bounds produced by from_pts, area() equals
\* diagonal().x * diagonal().y with diagonal() = p_max - p_min and is never
\* negative; a negative area only comes from a bounds that violates
\* p_min <= p_max.
C22_AreaNeverNegative == AreaOfDiagonal(AnyBounds)

\* C22, amended: the same, provided that for i32 the differences
\* p_max - p_min and their product are computed without overflow.
C22_AreaNeverNegativeNoOverflow == AreaOfDiagonal(ExactArea)

\* the Int bounds from (0, 0) to (2, 1) has area 2
C22_Witness ==
  /\ out.op = "area"
  /\ b.T = "i"
  /\ Held = [p_min |-> Mk2(I(0), I(0)), p_max |-> Mk2(I(2), I(1))]
  /\ out.r = I(2)

\* the narrowing to i32 of a * (1 - t) + c * t computed in Float
LerpNarrowedOnce(t, a, c) ==
  from_float("i", FloatAdd(FloatMul(to_float(a), FloatSub(F(1), t)),
                           FloatMul(to_float(c), t)))

\* C23 as stated: for integer points a, b and t in [0, 1], each component of
\* lerp(t, a, b) is the narrowing of the Float value a_i * (1 - t) + b_i * t,
\* so that lerp(t, a, a) == a and each component lies between a_i and b_i.
\* (Stated for components that are f32 values exactly.)
C23_LerpNarrowedOnce ==
  (out.op \in {"point2_lerp", "point3_lerp"} /\ out.T = "i"
     /\ out.a[1] \in {F(0), Fin(0, 1, 2), F(1)}) =>
    LET t == out.a[1]
        a == out.a[2]
        bb == out.a[3]
    IN  (\A f \in DOMAIN a : F32Exact(a[f]) /\ F32Exact(bb[f])) =>
          /\ \A f \in DOMAIN a :
               /\ out.r[f] = LerpNarrowedOnce(t, a[f], bb[f])
               /\ Le(min(a[f], bb[f]), out.r[f])
               /\ Le(out.r[f], max(a[f], bb[f]))
          /\ (a = bb) => out.r = a

\* some square x * x, or the sum of the squares, of the components of the
\* i32 vector v does not fit 32 bits
SquaresOverflow(v) ==
  \/ \E f \in DOMAIN v : MulOverflows(v[f].n, v[f].n)
  \/ AddOverflows(v.x.n * v.x.n, v.y.n * v.y.n)
  \/ ("z" \in DOMAIN v /\
        AddOverflows(v.x.n * v.x.n + v.y.n * v.y.n, v.z.n * v.z.n))

\* the sum of the squares of the components of v, when it fits 32 bits
SumOfSquares(v) ==
  v.x.n * v.x.n + v.y.n * v.y.n + (IF "z" \in DOMAIN v THEN v.z.n * v.z.n ELSE 0)

\* C24 as stated: length_squared() of a Vector2<i32> or Vector3<i32> is the
\* mathematical sum of the squared components as a Float, with no 32-bit
\* overflow or wrap-around on the way (a sum past Int::MAX is returned as
\* a Float above Int::MAX), and distance_squared(a, b) is
\* length_squared(a - b).
C24_LengthSquaredNoOverflow ==
  /\ (out.op \in {"vector2_length_squared", "vector3_length_squared"}
        /\ out.T = "i") =>
       LET v == out.a[1]
       IN  /\ ~Bad(out.r)
           /\ IF SquaresOverflow(v) THEN FloatLt(F(IntMax), out.r)
              ELSE out.r = to_float(I(SumOfSquares(v)))
  /\ (out.op = "distance2_squared") =>
       LET v == Point2_sub(build, out.a[1], out.a[2])
       IN  ~BadV(v) => out.r = Vector2_length_squared(build, v)

\* the queries of Bounds2
BoundsQueries ==
  {"diagonal", "area", "maximum_extent", "bounds_lerp", "offset", "inside",
   "inside_exclusive", "bounding_sphere", "bounds_index"}

\* C25: no Bounds2 query changes the bounds it is made on: a step that is a
\* call of diagonal, area, maximum_extent, lerp, offset, inside,
\* inside_exclusive, bounding_sphere or an indexed read leaves p_min and
\* p_max (and so p_min <= p_max) as they were, whether it returns or panics.
C25_QueriesLeaveBounds ==
  [][(out'.op \in BoundsQueries) => (b' = b)]_vars

\* bounding_sphere has returned a centre other than p_min and the bounds is
\* still the ordered Float bounds from (0, 0) to (2, 1)
C25_Witness ==
  /\ out.op = "bounding_sphere"
  /\ b.T = "f"
  /\ Held = [p_min |-> Mk2(F(0), F(0)), p_max |-> Mk2(F(2), F(1))]
  /\ Ordered(Held)
  /\ ~BadV(out.r.c)
  /\ out.r.c # Held.p_min

\* the value v holds after v /= s, for the operands of the v / s in out
DivAssigned ==
  LET v == out.a[1]
      s == out.a[2]
  IN  CASE out.op = "vector2_div" -> Vector2_div_assign(build, v, s)
        [] out.op = "point2_div" -> Point2_div_assign(build, v, s)
        [] out.op = "vector3_div" -> Vector3_div_assign(build, v, s)
        [] out.op = "point3_div" -> Point3_div_assign(build, v, s)

\* C26 as stated: for every vector or point v and every scalar s # 0, of
\* Float or of i32, the value of v / s is the value v holds after v /= s.
C26_DivAgreesWithDivAssign ==
  (out.op \in {"vector2_div", "point2_div", "vector3_div", "point3_div"}
     /\ ~Eq(out.a[2], zero(out.T))) =>
    out.r = DivAssigned

\* the calls of the arithmetic operators and the constructors
ArithmeticOps ==
  {"vector2_new", "vector2_add", "vector2_add_assign", "vector2_sub",
   "vector2_sub_assign", "vector2_mul", "vector2_mul_assign", "vector2_div",
   "vector2_div_assign", "vector2_neg",
   "point3_new", "point3_add", "point3_add_assign_vector",
   "point3_add_assign", "point3_sub_vector", "point3_sub",
   "point3_sub_assign", "point3_mul", "point3_mul_assign",
   "point3_mul_float", "point3_div", "point3_div_assign", "point3_neg"}

\* a returned vector or point with a NaN component
ReturnsNaN ==
  /\ ~BadV(out.r)
  /\ \/ has_nan(out.r.x)
     \/ has_nan(out.r.y)
     \/ ("z" \in DOMAIN out.r /\ has_nan(out.r.z))

\* C27: in the debug build no value returned by new, +, -, * scalar,
\* / scalar, unary negation or a compound assignment of a vector or point
\* type has a NaN component, whichever operand carried the NaN.
C27_DebugOperatorsNoNaN ==
  (build = "debug" /\ out.op \in ArithmeticOps) => ~ReturnsNaN

\* a debug-build sum whose right operand alone carries a NaN: the assertion
\* on self passes and the constructor stops the result
C27_Witness ==
  /\ build = "debug"
  /\ out.op = "vector2_add"
  /\ ~Vector2_has_nan(out.a[1])
  /\ Vector2_has_nan(out.a[2])
  /\ out.r = Panic2

\* every component of the primary origin and direction and of the auxiliary
\* data of self is a finite Float
FiniteDifferential(self) ==
  \A v \in {self.ray.o, self.ray.d, self.rx_origin, self.ry_origin,
            self.rx_direction, self.ry_direction} :
    \A f \in {"x", "y", "z"} : v[f].k = "fin"

\* the auxiliary data of r is that of old scaled by s about old's primary ray
ScaledBy(r, old, s) ==
  /\ r # PANIC
  /\ r.ray = old.ray
  /\ r.has_differential = old.has_differential
  /\ \A f \in {"x", "y", "z"} :
       /\ r.rx_origin[f] = ScaledAt(old.ray.o, old.rx_origin, s, f)
       /\ r.ry_origin[f] = ScaledAt(old.ray.o, old.ry_origin, s, f)
       /\ r.rx_direction[f] = ScaledAt(old.ray.d, old.rx_direction, s, f)
       /\ r.ry_direction[f] = ScaledAt(old.ray.d, old.ry_direction, s, f)

\* C28: on finite values in exact arithmetic, scale_differential(s1) followed
\* by scale_differential(s2) leaves the RayDifferential that one
\* scale_differential(s1 * s2) leaves, and scale_differential(1) leaves it as
\* it was.
C28_ScaleComposes ==
  /\ (out.op = "scale_differential_twice"
        /\ FiniteDifferential(out.a[1])
        /\ out.a[2].k = "fin" /\ out.a[3].k = "fin") =>
       /\ ScaledBy(out.r, out.a[1], FloatMul(out.a[2], out.a[3]))
       /\ rd = out.r
  /\ (out.op = "scale_differential" /\ FiniteDifferential(out.a[1])
        /\ out.a[2] = F(1)) =>
       (out.r = out.a[1] /\ rd = out.r)

\* o = (2, 1, 2), d = (1, 1, 1), rx_origin = (0, 1, 2) and the other
\* auxiliary values (1, 1, 2), scaled by 2 and by 2 again
C28_Witness ==
  /\ out.op = "scale_differential_twice"
  /\ out.a[2] = F(2)
  /\ out.a[3] = F(2)
  /\ out.a[1].ray.o = Mk3(F(2), F(1), F(2))
  /\ out.a[1].rx_origin = Mk3(F(0), F(1), F(2))
  /\ out.a[1].rx_direction = Mk3(F(1), F(1), F(2))
  /\ rd.rx_origin = Mk3(F(-6), F(1), F(2))
  /\ rd.rx_direction = Mk3(F(1), F(1), F(5))

\* the four auxiliary values of self are zero
ZeroAux(self) ==
  \A v \in {self.rx_origin, self.ry_origin, self.rx_direction,
            self.ry_direction} :
    v = Mk3(F(0), F(0), F(0))

\* the call in out built a RayDifferential without differentials
BuiltWithoutDifferentials ==
  \/ out.op \in {"rd_from_ray", "rd_from_od"}
  \/ /\ out.op = "rd_new"
     /\ ~out.a[3]
     /\ \A i \in 1..4 : out.a[4][i] = None

\* the call in out scaled, once or twice, a RayDifferential that has no
\* differentials and zero auxiliary values, and returned
ScaledWithoutDifferentials ==
  /\ out.op \in {"scale_differential", "scale_differential_twice"}
  /\ ~out.a[1].has_differential
  /\ ZeroAux(out.a[1])
  /\ out.r # PANIC

\* C29 as stated: a RayDifferential built without differentials has its four
\* auxiliary values zero after construction, and they remain zero after any
\* sequence of scale_differential calls.
C29_AbsentAuxStaysZero ==
  /\ BuiltWithoutDifferentials => (out.r = rd /\ ZeroAux(rd))
  /\ ScaledWithoutDifferentials => ZeroAux(rd)

\* C29 amended: a RayDifferential built without differentials has its four
\* auxiliary values zero after construction; scale_differential(s) scales
\* them like any others, to ray.o + (0 - ray.o) * s and
\* ray.d + (0 - ray.d) * s.
C29_AbsentAuxStartsZero ==
  /\ BuiltWithoutDifferentials => (out.r = rd /\ ZeroAux(rd))
  /\ (ScaledWithoutDifferentials /\ out.op = "scale_differential") =>
       /\ rd = out.r
       /\ \A f \in {"x", "y", "z"} :
            LET old == out.a[1]
                s == out.a[2]
            IN  /\ rd.rx_origin[f] = ScaledAt(old.ray.o, old.rx_origin, s, f)
                /\ rd.ry_origin[f] = ScaledAt(old.ray.o, old.ry_origin, s, f)
                /\ rd.rx_direction[f] =
                     ScaledAt(old.ray.d, old.rx_direction, s, f)
                /\ rd.ry_direction[f] =
                     ScaledAt(old.ray.d, old.ry_direction, s, f)

\* from_od((1, 1, 2), (1, 1, 1)) scaled by 2: the auxiliary origins are
\* (-1, -1, -2) and the auxiliary directions (-1, -1, -1)
C29_Witness ==
  /\ out.op = "scale_differential"
  /\ ~out.a[1].has_differential
  /\ ZeroAux(out.a[1])
  /\ out.a[1].ray.o = Mk3(F(1), F(1), F(2))
  /\ out.a[1].ray.d = Mk3(F(1), F(1), F(1))
  /\ out.a[2] = F(2)
  /\ rd.rx_origin = Mk3(F(-1), F(-1), F(-2))
  /\ rd.ry_direction = Mk3(F(-1), F(-1), F(-1))

\* t_max = +infinity, time = 0 and no medium
UnboundedRay(r) == r.t_max = Inf(1) /\ r.time = F(0) /\ r.medium = None

\* C30 as stated: Ray::default(), and the inner ray of
\* RayDifferential::default(), has t_max = +infinity, time = 0 and no medium,
\* like a ray from from_od or from new without a t_max.
C30_DefaultRayUnbounded ==
  /\ (out.op = "ray_default") => UnboundedRay(out.r)
  /\ (out.op = "rd_default") => UnboundedRay(out.r.ray)

=============================================================================
